---------------------------- MODULE Spec2Model ----------------------------
(***************************************************************************)
(* A model of the Genos autograder's test-execution core.                  *)
(*                                                                         *)
(* Specification Spec models one call of Genos::run (genos/src/genos.rs):  *)
(* the serial setup loop, the join_all over the regular tests, the         *)
(* join_all over the writers, the unwrap of the writers' results and the   *)
(* fold that turns the collected RunResults into run's return value.       *)
(*                                                                         *)
(* Specification SpecTest models one call of GenosTest::run                *)
(* (genos/src/test.rs): the loop over the stages and the ResultBuilder.    *)
(* Specification SpecProc models one call of ShellExecutor::run            *)
(* (genos/src/process.rs): spawn, the wait under the command's timeout,    *)
(* the pipe tasks and the Output run returns.  Specification SpecStage     *)
(* models one call of a stage's run: Compile and RunStage                  *)
(* (grader_systems/src/stage), CompareFiles (genos/src/stage) and          *)
(* Valgrind (grader_systems/src/stage), each over the contract of the      *)
(* process executor it is given.  Specification SpecFn models one call of  *)
(* a function without side effects: TestConfig::validate (config.rs), the  *)
(* conversion of a child's wait status to ExitStatus (process.rs) and the  *)
(* subtraction of Points (points.rs).  Each specification holds the        *)
(* variables of the others at rest.                                        *)
(*                                                                         *)
(* Tests and writers are trait objects; they are modelled by their         *)
(* contracts: Executor::run returns Ok(TestResult) or Err(error),          *)
(* ResultsWriter::write returns Ok(()) or Err(error), tokio's create_dir   *)
(* returns Ok(()) or Err(io error).  Points are integers of hundredths     *)
(* (points.rs), Option<T> is a sequence of length 0 or 1, Output is the    *)
(* sequence of its sections.                                               *)
(***************************************************************************)
EXTENDS Integers, Sequences, FiniteSets, TLC

(* ------------------------------ bounds -------------------------------- *)
MaxSetup == 2

MaxTests == 2

MaxWriters == 2

\* GenosTest::run: the most stages a test has, the most points a test or a
\* stage is worth (in hundredths of a point).
MaxStages == 3

MaxPoints == 2

\* ShellExecutor::run: the longest timeout a command has and how long the
\* clock runs while run waits (in ticks).
MaxTimeout == 2

MaxClock == 3

\* The stages: the largest of the small exit codes a process returns.
MaxExitCode == 2

\* CompareFiles: the most comparisons a stage is configured with.
MaxCompares == 2

\* compare_files.rs: the most bytes of a file that is shown transformed.
MaxContent == 3

\* valgrind.rs: the --error-exitcode valgrind is run with.
ERROR_EXITCODE == 125

\* run.rs: the timeout of a Run stage configured without one, in seconds.
Run_DEFAULT_TIMEOUT == 60

\* valgrind.rs: the timeout of a Valgrind stage whose run is configured
\* without one, in seconds, and the factor applied to a configured one.
Valgrind_DEFAULT_TIMEOUT == 120

TIMEOUT_MULT == 2

(* --------------------------- Option, Result --------------------------- *)
None == <<>>

Some(x) == <<x>>

Ok(r) == [tag |-> "Ok", res |-> Some(r), err |-> None]

Err(e) == [tag |-> "Err", res |-> None, err |-> Some(e)]

(* ------------------------------ score.rs ------------------------------ *)
Score(received, possible) == [received |-> received, possible |-> possible]

zero_points(max) == Score(0, max)

full_points(max) == Score(max, max)

(* ------------------------------ test.rs ------------------------------- *)
Pass(score) == [tag |-> "Pass", score |-> score]

Fail(score) == [tag |-> "Fail", score |-> score]

TestResult(status, output) == [status |-> status, output |-> output]

\* TestResult::new(points) as genos.rs:161 calls it: Pass(full(max)) and an
\* empty output.
TestResult_new(points) == TestResult(Pass(full_points(points)), <<>>)

\* TestResult::lose_full_points as genos.rs:162 calls it.
lose_full_points(res) ==
    [res EXCEPT !.status = Fail(zero_points(res.status.score.possible))]

(* ----------------------------- output.rs ------------------------------ *)
Section(header, content) == [header |-> header, content |-> <<content>>]

\* Output::append: the other output's sections are pushed after this one's.
append(output, other) == output \o other

\* Contains for Output / Section: the text occurs in a header or in a block.
contains(output, s) ==
    \E i \in 1..Len(output) :
        \/ output[i].header = s
        \/ \E j \in 1..Len(output[i].content) : output[i].content[j] = s

(* --------------- stage results as test.rs consumes them --------------- *)
\* StagePoints, as GenosTest's ResultBuilder matches on it: the score of a
\* stage worth partial points, or the verdict of a pass/fail stage.
Partial(score) == [tag |-> "Partial", score |-> Some(score), passed |-> None]

Absolute(passed) ==
    [tag |-> "Absolute", score |-> None, passed |-> Some(passed)]

\* StageStatus.
Continue(stage_points) == [tag |-> "Continue", points |-> Some(stage_points)]

UnrecoverableFailure == [tag |-> "UnrecoverableFailure", points |-> None]

\* StageResult: output is an Option<Output>.
StageResult(status, output) == [status |-> status, output |-> output]

unwrap_or(opt, default) == IF opt = None THEN default ELSE opt[1]

\* Faulty variant of Score_add: the stage's score replaces the sum so far.
ScoreReplaced(a, b) == b

\* Add / AddAssign for Score: component-wise.
Score_add(a, b) == Score(a.received + b.received, a.possible + b.possible)

\* Faulty variant of received_full_points: every score counts as full.
AlwaysFullPoints(score) == TRUE

\* Score::received_full_points.
received_full_points(score) == score.possible = score.received

(* -------------------- test.rs: the ResultBuilder ---------------------- *)
ResultBuilder_new(points_possible) ==
    [ output |-> <<>>,
      partial_points_processed |-> 0,
      points_possible |-> points_possible,
      score |-> Score(0, 0),
      test_failed |-> FALSE ]

\* ResultBuilder::record_result: the stage's output is appended; a Continue
\* adds a partial score and its possible points, or records a failed
\* pass/fail stage; an UnrecoverableFailure changes nothing else.
record_result(b, res) ==
    LET out == append(b.output, unwrap_or(res.output, <<>>))
    IN  IF res.status.tag = "Continue"
        THEN LET stage_points == res.status.points[1]
             IN  IF stage_points.tag = "Partial"
                 THEN [b EXCEPT
                         !.output = out,
                         !.score = Score_add(@, stage_points.score[1]),
                         !.partial_points_processed =
                             @ + stage_points.score[1].possible]
                 ELSE [b EXCEPT
                         !.output = out,
                         !.test_failed = @ \/ ~stage_points.passed[1]]
        ELSE [b EXCEPT !.output = out]

\* Faulty variant of to_result_assert: nothing is asserted.
AssertSkipped(b) == TRUE

\* The assert_eq! that opens ResultBuilder::to_result.
to_result_assert(b) == b.partial_points_processed = b.points_possible

\* ResultBuilder::to_result, past its assertion.
to_result(b) ==
    LET score == IF b.test_failed THEN zero_points(b.points_possible)
                                  ELSE b.score
    IN  IF received_full_points(score)
        THEN TestResult(Pass(score), b.output)
        ELSE TestResult(Fail(score), b.output)

(* ----------------------- process.rs: the data ------------------------- *)
\* std::process::ExitStatus of a child that exited: an exit code, or the
\* signal that ended it.
StdExited(code) == [code |-> Some(code), signal |-> None]

StdSignaled(signal) == [code |-> None, signal |-> Some(signal)]

\* ExitStatus.
ExitStatus_Ok ==
    [tag |-> "Ok", rc |-> None, duration |-> None, signal |-> None]

Failure(rc) ==
    [tag |-> "Failure", rc |-> Some(rc), duration |-> None, signal |-> None]

Timeout(duration) ==
    [ tag |-> "Timeout", rc |-> None, duration |-> Some(duration),
      signal |-> None ]

Signal(signal) ==
    [ tag |-> "Signal", rc |-> None, duration |-> None,
      signal |-> Some(signal) ]

\* Faulty variant of SignalType_known: no signal is refused.
AnySignalKnown(value) == TRUE

\* From<i32> for SignalType panics on any signal but 11 and 6.
SignalType_known(value) == value \in {11, 6}

SignalType_from(value) == IF value = 11 THEN "SegFault" ELSE "Abort"

\* From<StdExitStatus> for ExitStatus, for a status it does not panic on.
ExitStatus_from(status) ==
    IF status.code = Some(0) THEN ExitStatus_Ok
    ELSE IF status.code # None THEN Failure(status.code[1])
    ELSE Signal(SignalType_from(status.signal[1]))

ExitStatus_from_panics(status) ==
    /\ status.code = None
    /\ ~SignalType_known(status.signal[1])

\* String::from_utf8_lossy: every invalid byte sequence becomes U+FFFD.
from_utf8_lossy(bytes) ==
    [i \in 1..Len(bytes) |-> IF bytes[i] = "\\xff" THEN "U+FFFD" ELSE bytes[i]]

\* process::Output.
ProcessOutput(status, stdout, stderr) ==
    [status |-> status, stdout |-> stdout, stderr |-> stderr]

\* Output::from_exit_status: empty stdout and stderr.
from_exit_status(status) == ProcessOutput(status, <<>>, <<>>)

\* Faulty variant of ProcessOutput_from: the captured bytes are dropped.
OutputWithoutCapture(status, stdout, stderr) ==
    from_exit_status(ExitStatus_from(status))

\* From<(StdExitStatus, Vec<u8>, Vec<u8>)> for Output.
ProcessOutput_from(status, stdout, stderr) ==
    ProcessOutput(ExitStatus_from(status), from_utf8_lossy(stdout),
                  from_utf8_lossy(stderr))

(* ------------------------- configured tests --------------------------- *)
\* A configured test: its TestId and the points it is worth.  Ids come from
\* one counter, setups first, as the repository's tests build them.
PointsOf(id) == 100 * (1 + (id % 2))

MkTest(id) == [id |-> id, points |-> PointsOf(id)]

get_tests(first, n) == [i \in 1..n |-> MkTest(first + i - 1)]

\* The same, with the id of the last test lowered by d: for d > 0 it is the
\* id of a test configured before it (nothing keeps the ids of the
\* configured tests apart).
get_tests_dup(first, n, d) ==
    [i \in 1..n |-> MkTest(IF i = n THEN first + i - 1 - d ELSE first + i - 1)]

\* What a test's Executor::run may return: a passing result, a failing
\* result that carries output, or a system error.
TestRunOutcomes(test) ==
    { Ok(TestResult_new(test.points)),
      Ok(TestResult(Fail(zero_points(test.points)),
                    <<Section("Compile", "make failed")>>)),
      Err([kind |-> "run", id |-> test.id]) }

\* test_workspace_id: the name of the test's directory under the root.
test_workspace_id(test) == <<"test_", test.id>>

\* create_dir(..).context(..): the io error with the test id as context.
CreateDirError(test) == [kind |-> "create_dir", id |-> test.id]

VARIABLES
    setup,        \* Genos.setup: the configured setup tests
    tests,        \* Genos.tests: the configured regular tests
    writers,      \* Genos.writers: the configured writers
    pc,           \* where Genos::run is
    results,      \* run_all_tests' results vector, then run's res
    phase,        \* per test: "idle", "mkdir", "running", "done"
    outcome,      \* per test: what run_test returned (Option<Result>)
    invoked,      \* per test: how often its Executor::run was called
    startOrder,   \* the tests in the order run_test was entered
    dirs,         \* the test ids whose workspace directory exists
    tres,         \* join_all's output slot of each regular test
    finishOrder,  \* the regular tests in the order their futures completed
    wphase,       \* per writer: "idle", "writing", "ok", "err"
    wcalls,       \* per writer: how often write was called
    wgot,         \* per writer: the list write was called with
    ret           \* what Genos::run produced

gvars == << setup, tests, writers, pc, results, phase, outcome, invoked,
            startOrder, dirs, tres, finishOrder, wphase, wcalls, wgot, ret >>

\* The state of one call of GenosTest::run (test.rs).
VARIABLES
    tpoints,      \* GenosTest.points
    stages,       \* GenosTest.stages: the configured stages
    tpc,          \* where GenosTest::run is: "loop", "await", "done"
    idx,          \* the position of the for loop over the stages
    builder,      \* run's ResultBuilder
    sphase,       \* per stage: "idle", "running", "returned"
    scalls,       \* per stage: how often its run was called
    sorder,       \* the stages in the order their run was called
    sret,         \* per stage: what its run returned (Option<Result>)
    tret          \* what GenosTest::run produced

tvars == << tpoints, stages, tpc, idx, builder, sphase, scalls, sorder,
            sret, tret >>

\* The state of one call of ShellExecutor::run (process.rs).
VARIABLES
    cmd,          \* the Command: timeout, stdin, stdout and stderr options
    ppc,          \* where ShellExecutor::run is: "start", "wait", "join", "done"
    clock,        \* the ticks since the child was spawned
    child,        \* the child: "none", "running", "exited", "killed"
    cstatus,      \* the exit status of a child that exited (Option)
    io,           \* ProcessIo: the state and the result of each spawned task
    pfiles,       \* what was written to the stdout and stderr files
    pret,         \* what ShellExecutor::run produced
    retAt         \* the tick at which run returned (Option)

pvars == << cmd, ppc, clock, child, cstatus, io, pfiles, pret, retAt >>

\* The state of one call of a stage's run (compile.rs, run.rs,
\* compare_files.rs, valgrind.rs).
VARIABLES
    stg,          \* the stage: its kind and its configuration
    wsfs,         \* the workspace: what the stage finds on the file system
    xcmds,        \* the commands the process executor was called with
    xrets,        \* what the process executor returned, call by call
    lfinds,       \* the names the resource locator was asked to find
    stpc,         \* where the stage's run is: "start", "await", "done"
    stloc,        \* the locals of run that live across its await points
    stret         \* what the stage's run produced

svars == << stg, wsfs, xcmds, xrets, lfinds, stpc, stloc, stret >>

\* The state of one call of a function without side effects
\* (TestConfig::validate, From<StdExitStatus> for ExitStatus, Sub and
\* SubAssign for Points).
VARIABLES
    fcall,        \* the function called and its arguments
    fret          \* what the call produced

fvars == << fcall, fret >>

\* The variables Genos::run does not touch.
nonGenosVars == << tvars, pvars, svars, fvars >>

\* The variables GenosTest::run does not touch.
nonTestVars == << gvars, pvars, svars, fvars >>

\* The variables ShellExecutor::run does not touch.
nonProcVars == << gvars, tvars, svars, fvars >>

\* The variables a stage's run does not touch.
nonStageVars == << gvars, tvars, pvars, fvars >>

\* The variables a call of a function does not touch.
nonFnVars == << gvars, tvars, pvars, svars >>

vars == << gvars, tvars, pvars, svars, fvars >>

NSetup == Len(setup)

NTests == Len(tests)

NAll == NSetup + NTests

NWriters == Len(writers)

\* The g-th configured test, setups first.
TestAt(g) == IF g <= NSetup THEN setup[g] ELSE tests[g - NSetup]

IsRunning(g) == phase[g] \in {"mkdir", "running"}

(* ------------------------------ genos.rs ------------------------------ *)
RunResult(test, res, err) == [test |-> test, res |-> res, err |-> err]

\* RunResult::as_test_output with the Description and TestOutput impls: what
\* a writer can read of a RunResult (the error is not part of it).
as_test_output(rr) ==
    [id |-> rr.test.id, status |-> rr.res.status, output |-> rr.res.output]

\* Faulty variant of run_test_and_process_result: lose_full_points is not
\* called on the result built for a system error.
ProcessResultKeepsFullPoints(test, r) ==
    IF r.tag = "Ok"
    THEN RunResult(test, r.res[1], None)
    ELSE RunResult(test,
                   [TestResult_new(test.points) EXCEPT !.output =
                      append(@, <<Section("System Error Occurred",
                                   "Please report this to course staff")>>)],
                   Some(r.err[1]))

\* run_test_and_process_result, applied to what run_test returned.
run_test_and_process_result(test, r) ==
    IF r.tag = "Ok"
    THEN RunResult(test, r.res[1], None)
    ELSE RunResult(test,
                   LET res == lose_full_points(TestResult_new(test.points))
                   IN  [res EXCEPT !.output =
                          append(@, <<Section("System Error Occurred",
                                       "Please report this to course staff")>>)],
                   Some(r.err[1]))

\* Faulty variant of is_err: the error of a result is never seen.
NeverErr(rr) == FALSE

\* Faulty variant of is_err: every result counts as an error.
AlwaysErr(rr) == TRUE

\* let is_err = res.err.is_some();

is_err(rr) == rr.err # None

\* anyhow!("Found system error: {}", e)
FoundSystemError(e) == [kind |-> "Found system error", cause |-> e]

\* One step of the fold in Genos::run.
fold_step(acc, curr) ==
    IF acc.tag = "Ok"
    THEN IF curr.err # None
         THEN Err(FoundSystemError(curr.err[1]))
         ELSE Ok(Append(acc.res[1], curr.res))
    ELSE acc

RECURSIVE fold_from(_, _, _)
fold_from(acc, res, i) ==
    IF i > Len(res) THEN acc ELSE fold_from(fold_step(acc, res[i]), res, i + 1)

\* res.into_iter().fold(Ok(vec![]), ..)
fold_results(res) == fold_from(Ok(<<>>), res, 1)

\* The state of Genos::run's return: still running, returned a value, or
\* unwound by a panic.
Running == [kind |-> "Running", value |-> None]

Returned(v) == [kind |-> "Returned", value |-> Some(v)]

Panicked == [kind |-> "Panicked", value |-> None]

(* ------------------------------- Init --------------------------------- *)
\* No GenosTest::run is modelled alongside Genos::run: tests are trait
\* objects there, see TestRunOutcomes.
TestRunIdle ==
    /\ tpoints = 0
    /\ stages = <<>>
    /\ tpc = "done"
    /\ idx = 1
    /\ builder = ResultBuilder_new(0)
    /\ sphase = <<>>
    /\ scalls = <<>>
    /\ sorder = <<>>
    /\ sret = <<>>
    /\ tret = Running

\* No command is run: process executors are behind the stages.
ProcIdle ==
    /\ cmd = [timeout |-> None, stdin |-> None, stdout |-> None,
              stderr |-> None]
    /\ ppc = "done"
    /\ clock = 0
    /\ child = "none"
    /\ cstatus = None
    /\ io = <<>>
    /\ pfiles = <<>>
    /\ pret = Running
    /\ retAt = None

\* No stage is run: stages are behind the tests.
StageIdle ==
    /\ stg = [kind |-> "none"]
    /\ wsfs = [files |-> <<>>, programs |-> {}, resources |-> <<>>]
    /\ xcmds = <<>>
    /\ xrets = <<>>
    /\ lfinds = <<>>
    /\ stpc = "done"
    /\ stloc = <<>>
    /\ stret = Running

\* No function call is looked at on its own.
FnIdle ==
    /\ fcall = [fn |-> "none"]
    /\ fret = Running

Init ==
    /\ TestRunIdle
    /\ ProcIdle
    /\ StageIdle
    /\ FnIdle
    /\ \E n \in 0..MaxSetup, m \in 0..MaxTests, k \in 0..MaxWriters :
         /\ setup = get_tests(0, n)
         /\ tests = get_tests(n, m)
         /\ writers = [w \in 1..k |-> w]
    /\ pc = "setup"
    /\ results = <<>>
    /\ phase = [g \in 1..NAll |-> "idle"]
    /\ outcome = [g \in 1..NAll |-> None]
    /\ invoked = [g \in 1..NAll |-> 0]
    /\ startOrder = <<>>
    /\ dirs = {}
    /\ tres = [i \in 1..NTests |-> None]
    /\ finishOrder = <<>>
    /\ wphase = [w \in 1..NWriters |-> "idle"]
    /\ wcalls = [w \in 1..NWriters |-> 0]
    /\ wgot = [w \in 1..NWriters |-> <<>>]
    /\ ret = Running

\* Genos::run entered for tests whose ids are not all different: the last
\* regular test may carry the id of a test configured before it.  At most
\* one writer is configured: the writers never touch the workspaces.
InitDup ==
    /\ TestRunIdle
    /\ ProcIdle
    /\ StageIdle
    /\ FnIdle
    /\ \E n \in 0..MaxSetup, m \in 0..MaxTests, k \in 0..1 :
         /\ setup = get_tests(0, n)
         /\ \E d \in 0..(IF m = 0 THEN 0 ELSE n + m - 1) :
              tests = get_tests_dup(n, m, d)
         /\ writers = [w \in 1..k |-> w]
    /\ pc = "setup"
    /\ results = <<>>
    /\ phase = [g \in 1..NAll |-> "idle"]
    /\ outcome = [g \in 1..NAll |-> None]
    /\ invoked = [g \in 1..NAll |-> 0]
    /\ startOrder = <<>>
    /\ dirs = {}
    /\ tres = [i \in 1..NTests |-> None]
    /\ finishOrder = <<>>
    /\ wphase = [w \in 1..NWriters |-> "idle"]
    /\ wcalls = [w \in 1..NWriters |-> 0]
    /\ wgot = [w \in 1..NWriters |-> <<>>]
    /\ ret = Running

(* ------------------------------ run_test ------------------------------ *)
\* run_test is entered for test g: create_dir is issued.
EnterRunTest(g) ==
    /\ phase' = [phase EXCEPT ![g] = "mkdir"]
    /\ startOrder' = Append(startOrder, g)

\* Faulty variant of CreateDirOk: test.run is called although the workspace
\* directory was not created.
CreateDirNotAwaited(g) ==
    /\ TestAt(g).id \notin dirs
    /\ dirs' = dirs
    /\ phase' = [phase EXCEPT ![g] = "running"]
    /\ invoked' = [invoked EXCEPT ![g] = @ + 1]

\* Faulty variant of CreateDirOk: an existing directory is taken over (as
\* create_dir_all would).
CreateDirAll(g) ==
    /\ dirs' = dirs \cup {TestAt(g).id}
    /\ phase' = [phase EXCEPT ![g] = "running"]
    /\ invoked' = [invoked EXCEPT ![g] = @ + 1]

\* create_dir succeeded: the directory exists and test.run is called.
CreateDirOk(g) ==
    /\ TestAt(g).id \notin dirs
    /\ dirs' = dirs \cup {TestAt(g).id}
    /\ phase' = [phase EXCEPT ![g] = "running"]
    /\ invoked' = [invoked EXCEPT ![g] = @ + 1]

(* ------------------- run_all_tests: the setup loop -------------------- *)
\* Faulty variant of SetupMayStart: the setup tests are started in order
\* without awaiting the one before (as join_all would).
NoWaitSetupMayStart(k) ==
    /\ pc = "setup"
    /\ phase[k] = "idle"
    /\ \A j \in 1..(k - 1) : phase[j] # "idle"

\* The loop starts iteration k only when the k-1 iterations before it have
\* pushed their results.
SetupMayStart(k) ==
    /\ pc = "setup"
    /\ k = Len(results) + 1
    /\ phase[k] = "idle"

SetupStart(k) ==
    /\ SetupMayStart(k)
    /\ EnterRunTest(k)
    /\ UNCHANGED << setup, tests, writers, pc, results, outcome, invoked, dirs,
                    tres, finishOrder, wphase, wcalls, wgot, ret >>

\* results.push(Arc::new(res)); if is_err { return results; }
SetupFinish(k, r) ==
    LET rr == run_test_and_process_result(setup[k], r)
    IN  /\ results' = Append(results, rr)
        /\ outcome' = [outcome EXCEPT ![k] = Some(r)]
        /\ phase' = [phase EXCEPT ![k] = "done"]
        /\ pc' = IF is_err(rr) THEN "write" ELSE "setup"

SetupCreateDir(k) ==
    /\ pc = "setup"
    /\ phase[k] = "mkdir"
    /\ \/ /\ CreateDirOk(k)
          /\ UNCHANGED << pc, results, outcome >>
       \/ /\ SetupFinish(k, Err(CreateDirError(setup[k])))
          /\ UNCHANGED << dirs, invoked >>
    /\ UNCHANGED << setup, tests, writers, startOrder, tres, finishOrder,
                    wphase, wcalls, wgot, ret >>

SetupRun(k) ==
    /\ pc = "setup"
    /\ phase[k] = "running"
    /\ \E r \in TestRunOutcomes(setup[k]) : SetupFinish(k, r)
    /\ UNCHANGED << setup, tests, writers, invoked, startOrder, dirs, tres,
                    finishOrder, wphase, wcalls, wgot, ret >>

\* The for loop over self.setup is exhausted: go on to the regular tests.
SetupLoopEnd ==
    /\ pc = "setup"
    /\ Len(results) = NSetup
    /\ pc' = "tests"
    /\ UNCHANGED << setup, tests, writers, results, phase, outcome, invoked,
                    startOrder, dirs, tres, finishOrder, wphase, wcalls, wgot,
                    ret >>

(* ------------- run_all_tests: join_all over the regular tests ---------- *)
\* join_all polls its futures in input order, so run_test is entered for
\* test i after it was entered for the tests before it; from then on the
\* futures advance in any order.
TestStart(i) ==
    /\ pc = "tests"
    /\ phase[NSetup + i] = "idle"
    /\ \A j \in 1..(i - 1) : phase[NSetup + j] # "idle"
    /\ EnterRunTest(NSetup + i)
    /\ UNCHANGED << setup, tests, writers, pc, results, outcome, invoked, dirs,
                    tres, finishOrder, wphase, wcalls, wgot, ret >>

\* The future of test i completes with Arc::new(res).
TestFinish(i, r) ==
    /\ tres' = [tres EXCEPT
                  ![i] = Some(run_test_and_process_result(tests[i], r))]
    /\ finishOrder' = Append(finishOrder, i)
    /\ outcome' = [outcome EXCEPT ![NSetup + i] = Some(r)]
    /\ phase' = [phase EXCEPT ![NSetup + i] = "done"]

TestCreateDir(i) ==
    /\ pc = "tests"
    /\ phase[NSetup + i] = "mkdir"
    /\ \/ /\ CreateDirOk(NSetup + i)
          /\ UNCHANGED << tres, finishOrder, outcome >>
       \/ /\ TestFinish(i, Err(CreateDirError(tests[i])))
          /\ UNCHANGED << dirs, invoked >>
    /\ UNCHANGED << setup, tests, writers, pc, results, startOrder, wphase,
                    wcalls, wgot, ret >>

TestRun(i) ==
    /\ pc = "tests"
    /\ phase[NSetup + i] = "running"
    /\ \E r \in TestRunOutcomes(tests[i]) : TestFinish(i, r)
    /\ UNCHANGED << setup, tests, writers, pc, results, invoked, startOrder,
                    dirs, wphase, wcalls, wgot, ret >>

RECURSIVE Flatten(_, _)
Flatten(f, n) == IF n = 0 THEN <<>> ELSE Flatten(f, n - 1) \o f[n]

\* Faulty variant of JoinAllReady: resolves at the first system error (as
\* try_join_all would).
TryJoinAllReady ==
    \/ \A i \in 1..NTests : phase[NSetup + i] = "done"
    \/ \E i \in 1..NTests : tres[i] # None /\ is_err(tres[i][1])

\* join_all resolves when every future has completed.
JoinAllReady == \A i \in 1..NTests : phase[NSetup + i] = "done"

\* Faulty variant of JoinAllOutput: the outputs in completion order (as
\* FuturesUnordered would yield them).
JoinAllByCompletion ==
    [k \in 1..Len(finishOrder) |-> tres[finishOrder[k]][1]]

\* Faulty variant of JoinAllOutput: the results that carry a system error
\* are left out.
JoinAllDropErrors ==
    SelectSeq(Flatten(tres, NTests), LAMBDA rr : ~is_err(rr))

\* join_all's output: the futures' outputs in the order of the input.
JoinAllOutput == Flatten(tres, NTests)

\* results.extend(test_results); results
JoinAllTests ==
    /\ pc = "tests"
    /\ JoinAllReady
    /\ results' = results \o JoinAllOutput
    /\ pc' = "write"
    /\ UNCHANGED << setup, tests, writers, phase, outcome, invoked, startOrder,
                    dirs, tres, finishOrder, wphase, wcalls, wgot, ret >>

(* --------------------------- write_results ---------------------------- *)
\* res.iter().map(|res| res.as_test_output()).collect()
WriterInput(res) == [i \in 1..Len(res) |-> as_test_output(res[i])]

\* join_all polls the writers' futures in input order: write is called on
\* writer w after it was called on the writers before it.
WriterStart(w) ==
    /\ pc = "write"
    /\ wphase[w] = "idle"
    /\ \A v \in 1..(w - 1) : wphase[v] # "idle"
    /\ wphase' = [wphase EXCEPT ![w] = "writing"]
    /\ wcalls' = [wcalls EXCEPT ![w] = @ + 1]
    /\ wgot' = [wgot EXCEPT ![w] = WriterInput(results)]
    /\ UNCHANGED << setup, tests, writers, pc, results, phase, outcome,
                    invoked, startOrder, dirs, tres, finishOrder, ret >>

\* writer.write(res).await returns Ok(()) or Err(..).
WriterReturns(w) ==
    /\ pc = "write"
    /\ wphase[w] = "writing"
    /\ \E st \in {"ok", "err"} : wphase' = [wphase EXCEPT ![w] = st]
    /\ UNCHANGED << setup, tests, writers, pc, results, phase, outcome,
                    invoked, startOrder, dirs, tres, finishOrder, wcalls, wgot,
                    ret >>

\* Faulty variant of JoinWritersReady: resolves at the first writer error
\* (as try_join_all would), dropping the writes still in flight.
TryJoinWritersReady ==
    \/ \A w \in 1..NWriters : wphase[w] \in {"ok", "err"}
    \/ /\ \A w \in 1..NWriters : wphase[w] # "idle"
       /\ \E w \in 1..NWriters : wphase[w] = "err"

\* join_all over the writers resolves when every write has returned.
JoinWritersReady == \A w \in 1..NWriters : wphase[w] \in {"ok", "err"}

\* .into_iter().for_each(|res| res.unwrap()): the first Err panics.
UnwrapPanics == \E w \in 1..NWriters : wphase[w] = "err"

WriteResultsEnd ==
    /\ pc = "write"
    /\ JoinWritersReady
    /\ IF UnwrapPanics
       THEN pc' = "done" /\ ret' = Panicked
       ELSE pc' = "fold" /\ ret' = ret
    /\ UNCHANGED << setup, tests, writers, results, phase, outcome, invoked,
                    startOrder, dirs, tres, finishOrder, wphase, wcalls, wgot >>

(* --------------------------- run's return ----------------------------- *)
RunReturn ==
    /\ pc = "fold"
    /\ ret' = Returned(fold_results(results))
    /\ pc' = "done"
    /\ UNCHANGED << setup, tests, writers, results, phase, outcome, invoked,
                    startOrder, dirs, tres, finishOrder, wphase, wcalls, wgot >>

Next ==
    \/ \E k \in 1..NSetup : SetupStart(k) /\ UNCHANGED nonGenosVars
    \/ \E k \in 1..NSetup : SetupCreateDir(k) /\ UNCHANGED nonGenosVars
    \/ \E k \in 1..NSetup : SetupRun(k) /\ UNCHANGED nonGenosVars
    \/ SetupLoopEnd /\ UNCHANGED nonGenosVars
    \/ \E i \in 1..NTests : TestStart(i) /\ UNCHANGED nonGenosVars
    \/ \E i \in 1..NTests : TestCreateDir(i) /\ UNCHANGED nonGenosVars
    \/ \E i \in 1..NTests : TestRun(i) /\ UNCHANGED nonGenosVars
    \/ JoinAllTests /\ UNCHANGED nonGenosVars
    \/ \E w \in 1..NWriters : WriterStart(w) /\ UNCHANGED nonGenosVars
    \/ \E w \in 1..NWriters : WriterReturns(w) /\ UNCHANGED nonGenosVars
    \/ WriteResultsEnd /\ UNCHANGED nonGenosVars
    \/ RunReturn /\ UNCHANGED nonGenosVars

Spec == Init /\ [][Next]_vars

\* Genos::run over tests that may share an id.
SpecDup == InitDup /\ [][Next]_vars

TypeOK ==
    /\ pc \in {"setup", "tests", "write", "fold", "done"}
    /\ \A g \in 1..NAll : phase[g] \in {"idle", "mkdir", "running", "done"}
    /\ \A w \in 1..NWriters : wphase[w] \in {"idle", "writing", "ok", "err"}
    /\ ret.kind \in {"Running", "Returned", "Panicked"}

(* ====================== GenosTest::run (test.rs) ====================== *)
\* No Genos::run is in progress while one GenosTest::run is looked at.
GenosIdle ==
    /\ setup = <<>>
    /\ tests = <<>>
    /\ writers = <<>>
    /\ pc = "done"
    /\ results = <<>>
    /\ phase = <<>>
    /\ outcome = <<>>
    /\ invoked = <<>>
    /\ startOrder = <<>>
    /\ dirs = {}
    /\ tres = <<>>
    /\ finishOrder = <<>>
    /\ wphase = <<>>
    /\ wcalls = <<>>
    /\ wgot = <<>>
    /\ ret = Running

NStages == Len(stages)

\* What a stage's Executor::run may return.  Stages are trait objects: a
\* system error, or a StageResult with any status and with or without
\* output.  A stage's score never has more points received than possible.
StageScores ==
    { sc \in { Score(r, s) : r \in 0..MaxPoints, s \in 0..MaxPoints } :
        sc.received <= sc.possible }

StageStatuses ==
    { UnrecoverableFailure }
    \cup { Continue(Partial(sc)) : sc \in StageScores }
    \cup { Continue(Absolute(passed)) : passed \in BOOLEAN }

StageOutputs(i) == { None, Some(<<Section("stage", ToString(i))>>) }

StageError(i) == [kind |-> "stage", id |-> i]

StageOutcomes(i) ==
    { Err(StageError(i)) }
    \cup { Ok(StageResult(st, o)) : st \in StageStatuses, o \in StageOutputs(i) }

\* The configured test: its points and its stages, with a fresh builder.
TestInit ==
    /\ GenosIdle
    /\ ProcIdle
    /\ StageIdle
    /\ FnIdle
    /\ \E n \in 0..MaxStages, p \in 0..MaxPoints :
         /\ stages = [i \in 1..n |-> i]
         /\ tpoints = p
         /\ builder = ResultBuilder_new(p)
    /\ tpc = "loop"
    /\ idx = 1
    /\ sphase = [i \in 1..NStages |-> "idle"]
    /\ scalls = [i \in 1..NStages |-> 0]
    /\ sorder = <<>>
    /\ sret = [i \in 1..NStages |-> None]
    /\ tret = Running

\* Faulty variant of StageMayStart: a stage's run may be called whatever the
\* loop position, also while another stage's run is being awaited.
AnyStageMayStart(i) == tpc \in {"loop", "await"}

\* The for loop reaches stage i: only the next stage in the configured
\* order, and only when no stage's run is being awaited.
StageMayStart(i) == tpc = "loop" /\ i = idx

\* stage.run(ws) is called.
StageStart(i) ==
    /\ StageMayStart(i)
    /\ sphase' = [sphase EXCEPT ![i] = "running"]
    /\ scalls' = [scalls EXCEPT ![i] = @ + 1]
    /\ sorder' = Append(sorder, i)
    /\ tpc' = "await"
    /\ UNCHANGED << tpoints, stages, idx, builder, sret, tret >>

\* Faulty variant of run_step: a stage's system error is dropped and the
\* loop goes on.
ErrorSkipsStage(b, r, points) ==
    IF r.tag = "Err"
    THEN [builder |-> b, ret |-> None]
    ELSE LET recorded == record_result(b, r.res[1])
         IN  IF r.res[1].status = UnrecoverableFailure
             THEN [ builder |-> recorded,
                    ret |-> Some(Ok(TestResult(Fail(zero_points(points)),
                                               recorded.output))) ]
             ELSE [builder |-> recorded, ret |-> None]

\* Faulty variant of run_step: the result returned on an
\* UnrecoverableFailure carries the output gathered before that stage.
UnrecoverableDropsOutput(b, r, points) ==
    IF r.tag = "Err"
    THEN [builder |-> b, ret |-> Some(Err(r.err[1]))]
    ELSE LET recorded == record_result(b, r.res[1])
         IN  IF r.res[1].status = UnrecoverableFailure
             THEN [ builder |-> recorded,
                    ret |-> Some(Ok(TestResult(Fail(zero_points(points)),
                                               b.output))) ]
             ELSE [builder |-> recorded, ret |-> None]

\* One iteration of run's loop body once the stage returned r: `?` returns
\* a system error; otherwise the result is recorded and an
\* UnrecoverableFailure returns Fail(zero_points) with the builder's output.
\* ret is None when the loop goes on.
run_step(b, r, points) ==
    IF r.tag = "Err"
    THEN [builder |-> b, ret |-> Some(Err(r.err[1]))]
    ELSE LET recorded == record_result(b, r.res[1])
         IN  IF r.res[1].status = UnrecoverableFailure
             THEN [ builder |-> recorded,
                    ret |-> Some(Ok(TestResult(Fail(zero_points(points)),
                                               recorded.output))) ]
             ELSE [builder |-> recorded, ret |-> None]

\* stage.run(ws).await returns.
StageReturns(i) ==
    /\ tpc = "await"
    /\ sphase[i] = "running"
    /\ \E r \in StageOutcomes(i) :
         LET step == run_step(builder, r, tpoints)
         IN  /\ sret' = [sret EXCEPT ![i] = Some(r)]
             /\ builder' = step.builder
             /\ IF step.ret = None
                THEN tpc' = "loop" /\ idx' = idx + 1 /\ tret' = tret
                ELSE tpc' = "done" /\ idx' = idx
                     /\ tret' = Returned(step.ret[1])
    /\ sphase' = [sphase EXCEPT ![i] = "returned"]
    /\ UNCHANGED << tpoints, stages, scalls, sorder >>

\* The loop is exhausted: Ok(builder.to_result()), or the panic of
\* to_result's assertion.
RunToResult ==
    /\ tpc = "loop"
    /\ idx > NStages
    /\ tret' = IF to_result_assert(builder)
               THEN Returned(Ok(to_result(builder)))
               ELSE Panicked
    /\ tpc' = "done"
    /\ UNCHANGED << tpoints, stages, idx, builder, sphase, scalls, sorder,
                    sret >>

TestNext ==
    \/ \E i \in 1..NStages : StageStart(i) /\ UNCHANGED nonTestVars
    \/ \E i \in 1..NStages : StageReturns(i) /\ UNCHANGED nonTestVars
    \/ RunToResult /\ UNCHANGED nonTestVars

SpecTest == TestInit /\ [][TestNext]_vars

(* =================== ShellExecutor::run (process.rs) ================== *)
\* The commands: with or without a timeout, a stdin source, a stdout file
\* and a stderr file.
Commands ==
    [ timeout : {None} \cup { Some(d) : d \in 0..MaxTimeout },
      stdin   : {None, Some("input")},
      stdout  : {None, Some("stdout.txt")},
      stderr  : {None, Some("stderr.txt")} ]

\* How a child may end, and what a pipe may carry.
StdStatuses ==
    { StdExited(0), StdExited(1), StdSignaled(11), StdSignaled(6),
      StdSignaled(9) }

Buffers == { <<>>, <<"a">>, <<"\\xff">> }

\* A task spawned for a pipe: not spawned, running, or finished with its
\* Result.
Task(state, buf) == [state |-> state, buf |-> buf]

NoTask == Task("none", <<>>)

\* ShellExecutor::spawn_io: a stdin task when the command has a stdin
\* source, a reader task for stdout and one for stderr.
spawn_io(c) ==
    [ stdin  |-> IF c.stdin # None THEN Task("running", <<>>) ELSE NoTask,
      stdout |-> Task("running", <<>>),
      stderr |-> Task("running", <<>>) ]

\* Faulty variant of kill_on_drop: dropping the child leaves it alone.
KillOnDropOff == FALSE

\* process.kill_on_drop(true).
kill_on_drop == TRUE

\* run returns and drops the Child: a child still running is sent SIGKILL.
drop_child(c) == IF kill_on_drop /\ c = "running" THEN "killed" ELSE c

\* ProcessIo::join_all awaits stdin, stdout, stderr in this order and
\* returns on the first error.
join_all_state(tasks) ==
    IF tasks.stdin.state = "running" THEN "pending"
    ELSE IF tasks.stdin.state = "err" THEN "err"
    ELSE IF tasks.stdout.state = "running" THEN "pending"
    ELSE IF tasks.stdout.state = "err" THEN "err"
    ELSE IF tasks.stderr.state = "running" THEN "pending"
    ELSE IF tasks.stderr.state = "err" THEN "err"
    ELSE "ok"

ProcInit ==
    /\ GenosIdle
    /\ TestRunIdle
    /\ StageIdle
    /\ FnIdle
    /\ cmd \in Commands
    /\ ppc = "start"
    /\ clock = 0
    /\ child = "none"
    /\ cstatus = None
    /\ io = [stdin |-> NoTask, stdout |-> NoTask, stderr |-> NoTask]
    /\ pfiles = [stdout |-> None, stderr |-> None]
    /\ pret = Running
    /\ retAt = None

\* run returns v.
ProcReturn(v) ==
    /\ pret' = v
    /\ ppc' = "done"
    /\ child' = drop_child(child)
    /\ retAt' = Some(clock)

\* process.spawn()? fails.
SpawnFails ==
    /\ ppc = "start"
    /\ ProcReturn(Returned(Err([kind |-> "spawn"])))
    /\ UNCHANGED << cmd, clock, cstatus, io, pfiles >>

\* process.spawn() and spawn_io succeed; run awaits child.wait().  The
\* child may hand its ends of the pipes on to a process of its own, which
\* the executor neither sees nor kills.
Spawn ==
    /\ ppc = "start"
    /\ child' = "running"
    /\ \E inh \in BOOLEAN : io' = spawn_io(cmd) @@ [inherited |-> inh]
    /\ ppc' = "wait"
    /\ UNCHANGED << cmd, clock, cstatus, pfiles, pret, retAt >>

\* Time passes while run awaits; tokio's timeout lets no time pass beyond
\* its deadline while the wait is pending.
Tick ==
    /\ ppc \in {"wait", "join"}
    /\ clock < MaxClock
    /\ (ppc = "wait" /\ cmd.timeout # None) => clock < cmd.timeout[1]
    /\ clock' = clock + 1
    /\ UNCHANGED << cmd, ppc, child, cstatus, io, pfiles, pret, retAt >>

\* The child ends on its own.
ChildExits ==
    /\ child = "running"
    /\ \E st \in StdStatuses : cstatus' = Some(st)
    /\ child' = "exited"
    /\ UNCHANGED << cmd, ppc, clock, io, pfiles, pret, retAt >>

\* A spawned task finishes: the copy to stdin is done or failed, a reader
\* saw EOF or failed.  The tasks are detached, they go on after run
\* returned.
TaskEnds(p) ==
    /\ io[p].state = "running"
    /\ \/ \E buf \in (IF p = "stdin" THEN {<<>>} ELSE Buffers) :
             io' = [io EXCEPT ![p] = Task("ok", buf)]
       \/ io' = [io EXCEPT ![p] = Task("err", <<>>)]
    /\ UNCHANGED << cmd, ppc, clock, child, cstatus, pfiles, pret, retAt >>

\* child.wait() (under the timeout or not) returns the exit status.
WaitReturns ==
    /\ ppc = "wait"
    /\ child = "exited"
    /\ ppc' = "join"
    /\ UNCHANGED << cmd, clock, child, cstatus, io, pfiles, pret, retAt >>

\* child.wait() returns an io error: `res?`.
WaitFails ==
    /\ ppc = "wait"
    /\ ProcReturn(Returned(Err([kind |-> "wait"])))
    /\ UNCHANGED << cmd, clock, cstatus, io, pfiles >>

\* The timeout elapsed with the wait still pending: run returns
\* Output::from_exit_status(ExitStatus::Timeout(duration)).
TimeoutFires ==
    /\ ppc = "wait"
    /\ child = "running"
    /\ cmd.timeout # None
    /\ clock >= cmd.timeout[1]
    /\ ProcReturn(Returned(Ok(from_exit_status(Timeout(cmd.timeout[1])))))
    /\ UNCHANGED << cmd, clock, cstatus, io, pfiles >>

\* io.join_all().await? fails.
JoinFails ==
    /\ ppc = "join"
    /\ join_all_state(io) = "err"
    /\ ProcReturn(Returned(Err([kind |-> "io"])))
    /\ UNCHANGED << cmd, clock, cstatus, io, pfiles >>

\* io.join_all() succeeds; write_results_to_file writes the configured
\* files, each write may fail; then the Output is built from the status
\* and the captured bytes.
JoinAndReturn ==
    /\ ppc = "join"
    /\ join_all_state(io) = "ok"
    /\ \E wo \in {TRUE} \cup {b \in {FALSE} : cmd.stdout # None},
          we \in {TRUE} \cup {b \in {FALSE} : cmd.stderr # None} :
         /\ pfiles' =
                [ stdout |-> IF cmd.stdout # None /\ wo
                             THEN Some(io.stdout.buf) ELSE None,
                  stderr |-> IF cmd.stderr # None /\ we
                             THEN Some(io.stderr.buf) ELSE None ]
         /\ ProcReturn(
                IF ~(wo /\ we) THEN Returned(Err([kind |-> "write"]))
                ELSE IF ExitStatus_from_panics(cstatus[1]) THEN Panicked
                ELSE Returned(Ok(ProcessOutput_from(cstatus[1],
                                                    io.stdout.buf,
                                                    io.stderr.buf))))
    /\ UNCHANGED << cmd, clock, cstatus, io >>

ProcNext ==
    \/ SpawnFails /\ UNCHANGED nonProcVars
    \/ Spawn /\ UNCHANGED nonProcVars
    \/ Tick /\ UNCHANGED nonProcVars
    \/ ChildExits /\ UNCHANGED nonProcVars
    \/ \E p \in {"stdin", "stdout", "stderr"} :
           TaskEnds(p) /\ UNCHANGED nonProcVars
    \/ WaitReturns /\ UNCHANGED nonProcVars
    \/ WaitFails /\ UNCHANGED nonProcVars
    \/ TimeoutFires /\ UNCHANGED nonProcVars
    \/ JoinFails /\ UNCHANGED nonProcVars
    \/ JoinAndReturn /\ UNCHANGED nonProcVars

SpecProc == ProcInit /\ [][ProcNext]_vars

\* A step of run itself: the runtime polls a future that is ready.
ProcStep ==
    /\ \/ SpawnFails
       \/ Spawn
       \/ WaitReturns
       \/ WaitFails
       \/ TimeoutFires
       \/ JoinFails
       \/ JoinAndReturn
    /\ UNCHANGED nonProcVars

\* A pipe task ends because the other end of its pipe was closed: the
\* child is gone and no other process holds the pipe.
PipeCloses ==
    /\ child \in {"exited", "killed"}
    /\ ~io.inherited
    /\ \E p \in {"stdin", "stdout", "stderr"} : TaskEnds(p)
    /\ UNCHANGED nonProcVars

\* ShellExecutor::run under the scheduling the runtime and the OS give it:
\* run takes its steps, time passes, and a pipe that nobody holds any more
\* is closed.  Nothing makes the child exit or a process that inherited
\* the pipes let go of them.
SpecProcFair ==
    /\ ProcInit
    /\ [][ProcNext]_vars
    /\ WF_vars(ProcStep)
    /\ WF_vars(Tick /\ UNCHANGED nonProcVars)
    /\ WF_vars(PipeCloses)

(* ========================= the stages' vocabulary ====================== *)
(* ------------------------ points.rs: PointQuantity -------------------- *)
FullPoints == [tag |-> "FullPoints", points |-> None]

PointQuantity_Partial(points) == [tag |-> "Partial", points |-> Some(points)]

\* PointQuantity::zero.
PointQuantity_zero == PointQuantity_Partial(0)

is_full_points(q) == q.tag = "FullPoints"

\* Add / AddAssign for PointQuantity: FullPoints absorbs, Partials add.
PointQuantity_add(lhs, rhs) ==
    IF rhs = FullPoints THEN FullPoints
    ELSE IF lhs = FullPoints THEN FullPoints
    ELSE PointQuantity_Partial(lhs.points[1] + rhs.points[1])

(* --------------------- output.rs: sections' content ------------------- *)
RichText_new(text) == [text |-> text, code |-> FALSE]

\* RichTextMaker::code.
RichText_code(text) == [RichText_new(text) EXCEPT !.code = TRUE]

\* Content.
Block(text) == [tag |-> "Block", text |-> text]

SubSection(section) == [tag |-> "SubSection", section |-> section]

StatusList(updates) == [tag |-> "StatusList", updates |-> updates]

Multiline(contents) == [tag |-> "Multiline", contents |-> contents]

\* Into<Content> for &str and String: a block of plain text.
Content_from_text(text) == Block(RichText_new(text))

Section_new(header) == [header |-> header, content |-> <<>>]

\* Section::add_content / Section::content.
add_content(section, content) ==
    [section EXCEPT !.content = Append(@, content)]

\* Into<Content> for (A, B): a sub-section with one content.
Content_from_pair(header, content) ==
    SubSection(add_content(Section_new(header), content))

Output_new == <<>>

\* Output::section / Output::add_section.
Output_section(output, section) == Append(output, section)

\* Status.
Status_Pass == [tag |-> "Pass", points_lost |-> None]

Status_Fail(points_lost) == [tag |-> "Fail", points_lost |-> Some(points_lost)]

Update_new_pass(description) ==
    [description |-> description, status |-> Status_Pass, notes |-> None]

Update_new_fail(description, points_lost) ==
    [ description |-> description, status |-> Status_Fail(points_lost),
      notes |-> None ]

\* Update::set_fail / Update::fail.
set_fail(update, points_lost) ==
    [update EXCEPT !.status = Status_Fail(points_lost)]

\* Update::set_notes / Update::notes.
set_notes(update, notes) == [update EXCEPT !.notes = Some(notes)]

StatusUpdates_default == <<>>

\* StatusUpdates::add_update / StatusUpdates::update.
add_update(updates, update) == Append(updates, update)

(* --------------------- stage.rs: StageResult's makers ----------------- *)
\* StageStatus::Continue { points_lost }.
Continue_points_lost(points_lost) == Continue(points_lost)

new_continue(points_lost) ==
    StageResult(Continue_points_lost(points_lost), None)

new_unrecoverable_failure == StageResult(UnrecoverableFailure, None)

with_output(result, output) == [result EXCEPT !.output = Some(output)]

(* ------------------- process.rs: Command, the executor ---------------- *)
\* Command::new: every other field takes its Default.
Command_new(program) ==
    [ program |-> program, args |-> <<>>, cwd |-> None, stdin |-> None,
      stderr |-> None, stdout |-> None, timeout |-> None ]

\* Command::args / Command::add_args.
Command_args(c, args) == [c EXCEPT !.args = @ \o args]

\* Command::cwd / Command::set_cwd.
Command_cwd(c, cwd) == [c EXCEPT !.cwd = Some(cwd)]

\* What ExitStatus::Failure may carry: small codes and the codes around
\* valgrind's --error-exitcode.
ExitCodes ==
    (1..MaxExitCode)
        \cup {ERROR_EXITCODE - 1, ERROR_EXITCODE, ERROR_EXITCODE + 1}

ExitStatuses ==
    {ExitStatus_Ok}
        \cup { Failure(rc) : rc \in ExitCodes }
        \cup { Timeout(d) : d \in 0..MaxTimeout }
        \cup { Signal("SegFault"), Signal("Abort") }

\* ProcessExecutor::run, by its contract: Ok(process::Output) with any
\* status and any captured text, or Err(error).
ExecutorOutcomes ==
    { Ok(ProcessOutput(s, o, e)) :
        s \in ExitStatuses, o \in {<<>>, <<"out">>}, e \in {<<>>, <<"err">>} }
        \cup { Err("executor error") }

\* The workspace the stage is run in.
Workspace == "ws"

(* ========================= Compile (compile.rs) ======================== *)
\* Compile::new: the configured make_args, or none.
Compile_new(config) ==
    [kind |-> "Compile", args |-> unwrap_or(config.make_args, <<>>)]

\* Faulty variant of get_compile_feedback: the captured stderr is left out.
StdoutOnlyFeedback(output) ==
    Multiline(<< SubSection(add_content(Section_new("Compile Stdout"),
                                        Block(RichText_code(output.stdout)))) >>)

\* Compile::get_compile_feedback.
get_compile_feedback(output) ==
    Multiline(<< SubSection(add_content(Section_new("Compile Stdout"),
                                        Block(RichText_code(output.stdout)))),
                 SubSection(add_content(Section_new("Compile Stderr"),
                                        Block(RichText_code(output.stderr)))) >>)

\* The command Compile::run builds.
Compile_command(stage, ws) ==
    Command_cwd(Command_args(Command_new("make"), stage.args), ws)

\* Compile::run once the executor returned r.
Compile_finish(loc, r) ==
    IF r.tag = "Err" THEN Err(r.err[1])
    ELSE LET output == r.res[1]
         IN  IF output.status = ExitStatus_Ok
             THEN LET status_updates ==
                          add_update(loc.status_updates, loc.update)
                      section ==
                          add_content(loc.section, StatusList(status_updates))
                  IN  Ok(with_output(new_continue(PointQuantity_zero),
                                     Output_section(Output_new, section)))
             ELSE LET update ==
                          set_notes(set_fail(loc.update, FullPoints),
                                    get_compile_feedback(output))
                      status_updates == add_update(loc.status_updates, update)
                      section ==
                          add_content(loc.section, StatusList(status_updates))
                  IN  Ok(with_output(new_unrecoverable_failure,
                                     Output_section(Output_new, section)))

\* Compile::run up to its await: the locals and the call of the executor.
CompileCalls ==
    /\ stg.kind = "Compile"
    /\ stpc = "start"
    /\ stloc' = [ section |-> Section_new("Compile"),
                  status_updates |-> StatusUpdates_default,
                  update |-> Update_new_pass("Compiling submission") ]
    /\ xcmds' = Append(xcmds, Compile_command(stg, Workspace))
    /\ stpc' = "await"
    /\ UNCHANGED << stg, wsfs, xrets, lfinds, stret >>

\* The executor returns and Compile::run runs to its end.
CompileReturns ==
    /\ stg.kind = "Compile"
    /\ stpc = "await"
    /\ \E r \in ExecutorOutcomes :
         /\ xrets' = Append(xrets, r)
         /\ stret' = Returned(Compile_finish(stloc, r))
    /\ stpc' = "done"
    /\ UNCHANGED << stg, wsfs, xcmds, lfinds, stloc >>

(* ============================= Run (run.rs) ============================ *)
\* Faulty variant of completed: a process ended by a signal counts as
\* completed.
SignalCompleted(status) == status.tag \in {"Ok", "Failure", "Signal"}

\* ExitStatus::completed.
completed(status) == status.tag \in {"Ok", "Failure"}

\* ExitStatus::exit_code.
exit_code(status) ==
    IF status.tag = "Ok" THEN Some(0)
    ELSE IF status.tag = "Failure" THEN Some(status.rc[1])
    ELSE IF status.tag = "Timeout" THEN None
    ELSE Some(IF status.signal[1] = "SegFault" THEN 11 ELSE 6)

\* StdinPipe::Path.
StdinPipe_Path(path) == [tag |-> "Path", path |-> path]

\* Display for Command: the program, the arguments and the redirections.
Command_display(c) ==
    <<c.program>> \o c.args
        \o (IF c.stdin # None THEN <<"<", c.stdin[1].path>> ELSE <<>>)
        \o (IF c.stdout # None THEN <<">", c.stdout[1]>> ELSE <<>>)
        \o (IF c.stderr # None THEN <<"2>", c.stderr[1]>> ELSE <<>>)

\* Whether a file exists under the workspace, whether a program is in PATH.
exists(fs, name) == name \in DOMAIN fs.files

is_program_in_path(fs, program) == program \in fs.programs

\* Run::get_run_command.
get_run_command(config, ws, fs) ==
    LET base ==
            IF /\ ~unwrap_or(config.disable_garbage_memory, FALSE)
               /\ is_program_in_path(fs, "valgrind")
            THEN Command_args(Command_new("valgrind"),
                              << "--log-file=valgrind.log",
                                 "--malloc-fill=0xFF", "--free-fill=0xAA",
                                 config.executable >> \o config.args)
            ELSE Command_args(Command_new(config.executable), config.args)
    IN  [ base EXCEPT
            !.stdout = IF config.stdout # None THEN config.stdout ELSE @,
            !.stderr = IF config.stderr # None THEN config.stderr ELSE @,
            !.stdin = IF config.stdin # None
                      THEN Some(StdinPipe_Path(config.stdin[1])) ELSE @,
            !.timeout = Some(unwrap_or(config.timeout, Run_DEFAULT_TIMEOUT)),
            !.cwd = Some(ws) ]

\* get_signal_feedback.
get_signal_feedback(signal) ==
    IF signal = "Abort"
    THEN Content_from_text("Runtime error: Your submission exited with error code 6 (abort signal)")
    ELSE Content_from_text("Runtime error: Your submission exited with error code 11 (segmentation fault) ...")

\* Run::get_failed_run_notes, called for a status that is not completed.
get_failed_run_notes(res) ==
    IF res.status.tag = "Timeout"
    THEN Content_from_text(<< "Runtime error: program timed out after",
                              res.status.duration[1] >>)
    ELSE get_signal_feedback(res.status.signal[1])

\* Run::run once the executor returned r.
Run_finish(loc, config, r) ==
    IF r.tag = "Err" THEN Err(r.err[1])
    ELSE
    LET res == r.res[1]
    IN  IF ~completed(res.status)
        THEN LET updates ==
                     add_update(loc.run_status_updates,
                                set_notes(Update_new_fail("Running program",
                                                          FullPoints),
                                          get_failed_run_notes(res)))
                 section == add_content(loc.section, StatusList(updates))
             IN  Ok(StageResult(UnrecoverableFailure,
                                Some(Output_section(Output_new, section))))
        ELSE
        LET ran == add_update(loc.run_status_updates,
                              Update_new_pass("Running program"))
        IN  IF config.return_code # None
            THEN LET rc_config == config.return_code[1]
                     rc == exit_code(res.status)[1]
                 IN  IF rc # rc_config.expected
                     THEN LET updates ==
                                  add_update(ran,
                                      set_notes(
                                          Update_new_fail(
                                              "Checking return code",
                                              FullPoints),
                                          Content_from_text(
                                              << "Expected",
                                                 rc_config.expected,
                                                 "but found", rc >>)))
                              section ==
                                  add_content(loc.section, StatusList(updates))
                              points_lost ==
                                  PointQuantity_add(loc.points_lost,
                                                    rc_config.points)
                          IN  Ok(with_output(new_continue(points_lost),
                                     Output_section(Output_new, section)))
                     ELSE LET updates ==
                                  add_update(ran,
                                      Update_new_pass("Checking return code"))
                              section ==
                                  add_content(loc.section, StatusList(updates))
                          IN  Ok(with_output(new_continue(loc.points_lost),
                                     Output_section(Output_new, section)))
            ELSE Ok(with_output(new_continue(loc.points_lost),
                                Output_section(Output_new, loc.section)))

\* Run::run when the executable is not in the workspace: a system error.
RunMissing ==
    /\ stg.kind = "Run"
    /\ stpc = "start"
    /\ ~exists(wsfs, stg.config.executable)
    /\ stret' = Returned(Err(<< "Could not find student executable at",
                                stg.config.executable >>))
    /\ stpc' = "done"
    /\ UNCHANGED << stg, wsfs, xcmds, xrets, lfinds, stloc >>

\* Run::run up to its await: the locals, the command and its "run command"
\* sub-section, the call of the executor.
RunCalls ==
    /\ stg.kind = "Run"
    /\ stpc = "start"
    /\ exists(wsfs, stg.config.executable)
    /\ LET c == get_run_command(stg.config, Workspace, wsfs)
       IN  /\ stloc' = [ section |->
                             add_content(Section_new("Run Program"),
                                 Content_from_pair("run command",
                                     Block(RichText_code(Command_display(c))))),
                         run_status_updates |-> StatusUpdates_default,
                         points_lost |-> PointQuantity_zero ]
           /\ xcmds' = Append(xcmds, c)
    /\ stpc' = "await"
    /\ UNCHANGED << stg, wsfs, xrets, lfinds, stret >>

\* The executor returns and Run::run runs to its end.
RunReturns ==
    /\ stg.kind = "Run"
    /\ stpc = "await"
    /\ \E r \in ExecutorOutcomes :
         /\ xrets' = Append(xrets, r)
         /\ stret' = Returned(Run_finish(stloc, stg.config, r))
    /\ stpc' = "done"
    /\ UNCHANGED << stg, wsfs, xcmds, lfinds, stloc >>

(* ==================== CompareFiles (compare_files.rs) ================== *)
\* Display for CompareType.
CompareType_display(ctype) ==
    IF ctype = "Diff" THEN "diff"
    ELSE IF ctype = "Grep" THEN "grep" ELSE "reverse grep"

\* ResourceLocator::find, for a locator that knows the files of
\* fs.resources.
find(fs, name) ==
    IF name \in DOMAIN fs.resources THEN Ok(<<"resources", name>>)
    ELSE Err("File not found")

\* ws.join(name).
join(ws, name) == <<ws, name>>

\* The decimal digits of n, as ASCII.
RECURSIVE decimal(_)
decimal(n) ==
    IF n < 10 THEN <<48 + n>> ELSE decimal(n \div 10) \o <<48 + (n % 10)>>

\* The lower-case hexadecimal digits of n, as ASCII.
RECURSIVE lower_hex(_)
lower_hex(n) ==
    LET digit(d) == IF d < 10 THEN 48 + d ELSE 87 + d
    IN  IF n < 16 THEN <<digit(n)>>
        ELSE lower_hex(n \div 16) \o <<digit(n % 16)>>

\* Faulty variant of transform_byte: a line feed is passed through as it
\* is, without the visible marker.
PlainNewline(byte) ==
    IF byte = 0 THEN <<40, 92, 120, 48, 48, 41>>
    ELSE IF byte = 9 THEN <<40, 92, 116, 41>>
    ELSE IF byte = 10 THEN <<10>>
    ELSE IF byte = 11 THEN <<40, 92, 118, 41>>
    ELSE IF byte = 12 THEN <<40, 92, 102, 41>>
    ELSE IF byte = 13 THEN <<40, 92, 114, 41>>
    ELSE IF byte \in 32..126 THEN <<byte>>
    ELSE <<40, 48, 120>> \o lower_hex(byte) \o <<41>>

\* The transform_byte closure of load_transformed_content, as the bytes of
\* the String it returns: "(\x00)", "(\t)", a backslash, an n and a line
\* feed, "(\v)", "(\f)", "(\r)", a printable byte as itself, and
\* format!("({:#02x})", byte) for the rest.
transform_byte(byte) ==
    IF byte = 0 THEN <<40, 92, 120, 48, 48, 41>>
    ELSE IF byte = 9 THEN <<40, 92, 116, 41>>
    ELSE IF byte = 10 THEN <<92, 110, 10>>
    ELSE IF byte = 11 THEN <<40, 92, 118, 41>>
    ELSE IF byte = 12 THEN <<40, 92, 102, 41>>
    ELSE IF byte = 13 THEN <<40, 92, 114, 41>>
    ELSE IF byte \in 32..126 THEN <<byte>>
    ELSE <<40, 48, 120>> \o lower_hex(byte) \o <<41>>

\* The line_number_str closure, format!("{:02}| ", line_number): the
\* number, at least two digits wide, then "| ".
line_number_str(n) ==
    (IF n < 10 THEN <<48>> ELSE <<>>) \o decimal(n) \o <<124, 32>>

RECURSIVE transform_from(_, _, _)
transform_from(contents, k, line_number) ==
    IF k > Len(contents) THEN <<>>
    ELSE transform_byte(contents[k])
           \o (IF contents[k] = 10
               THEN line_number_str(line_number)
                      \o transform_from(contents, k + 1, line_number + 1)
               ELSE transform_from(contents, k + 1, line_number))

\* The text load_transformed_content makes of a file's bytes.
transformed(contents) == line_number_str(1) \o transform_from(contents, 1, 2)

\* load_transformed_content: File::open fails on a file that is not there.
\* files maps the names of the files that exist to their bytes.
load_transformed_content(files, name) ==
    IF name \in DOMAIN files THEN Ok(transformed(files[name]))
    ELSE Err("No such file or directory")

\* CompareFiles::get_failed_diff_feedback.
get_failed_diff_feedback(fs, expected_name, student_name) ==
    LET expected_content == load_transformed_content(fs.resources,
                                                     expected_name)
        student_content == load_transformed_content(fs.files, student_name)
    IN  IF expected_content.tag = "Err" THEN expected_content
        ELSE IF student_content.tag = "Err" THEN student_content
        ELSE Ok(Multiline(<<
                 SubSection(add_content(
                     Section_new(<<"Expected", student_name>>),
                     Block(RichText_code(expected_content.res[1])))),
                 SubSection(add_content(
                     Section_new(<<"Actual", student_name>>),
                     Block(RichText_code(student_content.res[1])))) >>))

\* CompareFiles::get_failed_compare_feedback, for the Diff comparisons that
\* reach it.
get_failed_compare_feedback(compare, fs, expected_name) ==
    IF ~compare.show_output
    THEN Ok(Content_from_text(
             << "Actual", compare.student_file, "did not match expected",
                compare.student_file,
                "The instructor has chosen to keep this output hidden." >>))
    ELSE get_failed_diff_feedback(fs, expected_name, compare.student_file)

\* The command DiffCompare::compare runs.
cmp_command(file1, file2) == Command_args(Command_new("cmp"), <<file1, file2>>)

\* What the executor returns to cmp: the exit codes of cmp, a timeout, a
\* signal, or an error; cmp prints nothing the stage looks at.
CmpOutcomes ==
    { Ok(from_exit_status(s)) :
        s \in { ExitStatus_Ok, Failure(1), Failure(2), Timeout(MaxTimeout),
                Signal("Abort") } }
        \cup { Err("executor error") }

\* Faulty variant of DiffCompare_finish: every exit code but 0 counts as
\* "the files differ".
CmpErrorIsMismatch(r) ==
    IF r.tag = "Err" THEN Err(r.err[1])
    ELSE IF r.res[1].status = ExitStatus_Ok THEN Ok(TRUE)
    ELSE IF r.res[1].status.tag = "Failure" THEN Ok(FALSE)
    ELSE Err(<<"Error running cmp:", r.res[1].stderr>>)

\* DiffCompare::compare once the executor returned r: Ok(true) on exit code
\* 0, Ok(false) on exit code 1, an error otherwise.
DiffCompare_finish(r) ==
    IF r.tag = "Err" THEN Err(r.err[1])
    ELSE IF r.res[1].status = ExitStatus_Ok THEN Ok(TRUE)
    ELSE IF r.res[1].status.tag = "Failure"
    THEN IF r.res[1].status.rc[1] > 1 THEN Err("Error running cmp")
         ELSE Ok(FALSE)
    ELSE Err(<<"Error running cmp:", r.res[1].stderr>>)

\* The update a comparison starts with.
compare_update(compare) ==
    Update_new_pass(<< "Comparing", compare.student_file,
                       CompareType_display(compare.compare_type) >>)

\* What run does next, as a record: where it is then, its locals, what it
\* returned, the finds it made and the command it handed the executor.
Step(at, loc, result, finds, cmds) ==
    [pc |-> at, loc |-> loc, ret |-> result, finds |-> finds, cmds |-> cmds]

\* Faulty variant of no_match: the failed comparison's points are not
\* added to points_lost.
NoMatchNotDeducted(loc, compare, fs) ==
    IF Len(compare.expected) = 0
    THEN Step("done", loc, Panicked, <<>>, <<>>)
    ELSE LET found == find(fs, compare.expected[1])
         IN  IF found.tag = "Err"
             THEN Step("done", loc, Returned(Err(found.err[1])),
                       <<compare.expected[1]>>, <<>>)
             ELSE LET feedback ==
                          get_failed_compare_feedback(compare, fs,
                                                      compare.expected[1])
                      update ==
                          set_notes(set_fail(loc.update, compare.points),
                                    feedback.res[1])
                  IN  IF feedback.tag = "Err"
                      THEN Step("done", loc, Returned(Err(feedback.err[1])),
                                <<compare.expected[1]>>, <<>>)
                      ELSE
                      Step("loop",
                           [loc EXCEPT
                              !.compare_status_updates = add_update(@, update),
                              !.i = @ + 1],
                           Running, <<compare.expected[1]>>, <<>>)

\* CompareFiles::run after match_any found no match: the update fails with
\* the configured points, which are added to points_lost; the first
\* expected file is located again (indexing expected[0] panics when the
\* list is empty) and the feedback becomes the update's notes.
no_match(loc, compare, fs) ==
    IF Len(compare.expected) = 0
    THEN Step("done", loc, Panicked, <<>>, <<>>)
    ELSE LET found == find(fs, compare.expected[1])
         IN  IF found.tag = "Err"
             THEN Step("done", loc, Returned(Err(found.err[1])),
                       <<compare.expected[1]>>, <<>>)
             ELSE LET feedback ==
                          get_failed_compare_feedback(compare, fs,
                                                      compare.expected[1])
                      update ==
                          set_notes(set_fail(loc.update, compare.points),
                                    feedback.res[1])
                  IN  IF feedback.tag = "Err"
                      THEN Step("done", loc, Returned(Err(feedback.err[1])),
                                <<compare.expected[1]>>, <<>>)
                      ELSE
                      Step("loop",
                           [loc EXCEPT
                              !.compare_status_updates = add_update(@, update),
                              !.points_lost =
                                  PointQuantity_add(@, compare.points),
                              !.i = @ + 1],
                           Running, <<compare.expected[1]>>, <<>>)

\* CompareFiles::match_any from its j-th expected file on: the file is
\* located (`?` returns the locator's error) and compared with the student
\* file by the comparator; past the last expected file there is no match.
match_any_from(loc, compare, j, ws, fs) ==
    IF j > Len(compare.expected) THEN no_match(loc, compare, fs)
    ELSE LET found == find(fs, compare.expected[j])
         IN  IF found.tag = "Err"
             THEN Step("done", loc, Returned(Err(found.err[1])),
                       <<compare.expected[j]>>, <<>>)
             ELSE Step("await", [loc EXCEPT !.j = j], Running,
                       <<compare.expected[j]>>,
                       << cmp_command(found.res[1],
                                      join(ws, compare.student_file)) >>)

\* The locals of CompareFiles::run at the head of its loop.
CompareLocals ==
    [ i |-> 1, j |-> 0, update |-> Update_new_pass(""),
      compare_status_updates |-> StatusUpdates_default,
      points_lost |-> PointQuantity_zero ]

\* The comparison the loop is at.
CompareAt == stg.config.compares[stloc.i]

CompareLoopAt ==
    /\ stg.kind = "CompareFiles"
    /\ stpc = "loop"
    /\ stloc.i <= Len(stg.config.compares)

\* Faulty variant of missing_file: the missing file's points are not
\* added to points_lost.
MissingNotDeducted(loc, compare) ==
    LET update ==
            set_notes(set_fail(compare_update(compare), compare.points),
                      Content_from_text(
                          << "Could not find file", compare.student_file,
                             "in root of workspace" >>))
    IN  [ loc EXCEPT
            !.compare_status_updates = add_update(@, update),
            !.i = @ + 1 ]

\* The body of run's loop for a student file that does not exist: the
\* update fails with the configured points and the "Could not find file"
\* note, the points are added to points_lost, and the loop continues.
missing_file(loc, compare) ==
    LET update ==
            set_notes(set_fail(compare_update(compare), compare.points),
                      Content_from_text(
                          << "Could not find file", compare.student_file,
                             "in root of workspace" >>))
    IN  [ loc EXCEPT
            !.compare_status_updates = add_update(@, update),
            !.points_lost = PointQuantity_add(@, compare.points),
            !.i = @ + 1 ]

\* An iteration for a student file that does not exist.
CompareMissing ==
    /\ CompareLoopAt
    /\ ~exists(wsfs, CompareAt.student_file)
    /\ stloc' = missing_file(stloc, CompareAt)
    /\ UNCHANGED << stg, wsfs, xcmds, xrets, lfinds, stpc, stret >>

\* What a Step does to the state.
TakeStep(s) ==
    /\ stpc' = s.pc
    /\ stloc' = s.loc
    /\ stret' = s.ret
    /\ lfinds' = lfinds \o [k \in 1..Len(s.finds) |->
                               [i |-> stloc.i, name |-> s.finds[k]]]
    /\ xcmds' = xcmds \o s.cmds

\* An iteration for a student file that exists, up to the first await:
\* ComparatorCreatorImpl::create panics on any compare type but Diff, then
\* match_any starts with the first expected file.
CompareStart ==
    /\ CompareLoopAt
    /\ exists(wsfs, CompareAt.student_file)
    /\ LET loc == [stloc EXCEPT !.update = compare_update(CompareAt)]
       IN  IF CompareAt.compare_type # "Diff"
           THEN TakeStep(Step("done", loc, Panicked, <<>>, <<>>))
           ELSE TakeStep(match_any_from(loc, CompareAt, 1, Workspace, wsfs))
    /\ UNCHANGED << stg, wsfs, xrets >>

\* The executor returns to DiffCompare::compare: on a match the passing
\* update is added and the loop continues; otherwise match_any goes on
\* with the next expected file; a comparator error is returned by `?`.
CompareReturns ==
    /\ stg.kind = "CompareFiles"
    /\ stpc = "await"
    /\ \E r \in CmpOutcomes :
         /\ xrets' = Append(xrets, r)
         /\ LET matched == DiffCompare_finish(r)
            IN  IF matched.tag = "Err"
                THEN TakeStep(Step("done", stloc,
                                   Returned(Err(matched.err[1])), <<>>, <<>>))
                ELSE IF matched.res[1]
                THEN TakeStep(Step("loop",
                         [ stloc EXCEPT
                             !.compare_status_updates =
                                 add_update(@, stloc.update),
                             !.i = @ + 1 ],
                         Running, <<>>, <<>>))
                ELSE TakeStep(match_any_from(stloc, CompareAt, stloc.j + 1,
                                             Workspace, wsfs))
    /\ UNCHANGED << stg, wsfs >>

\* The loop is exhausted: Continue with points_lost and the single
\* "Compare Output" section.
CompareDone ==
    /\ stg.kind = "CompareFiles"
    /\ stpc = "loop"
    /\ stloc.i > Len(stg.config.compares)
    /\ LET output ==
               Output_section(Output_new,
                   add_content(Section_new("Compare Output"),
                               StatusList(stloc.compare_status_updates)))
       IN  stret' = Returned(Ok(with_output(new_continue(stloc.points_lost),
                                            output)))
    /\ stpc' = "done"
    /\ UNCHANGED << stg, wsfs, xcmds, xrets, lfinds, stloc >>

(* ========================= Valgrind (valgrind.rs) ====================== *)
\* A piece of text as hide_absolute_paths sees it: what precedes a path,
\* the directories of an absolute path (none for plain text) and the
\* basename or the plain text.
Tok(pre, dir, base) == [pre |-> pre, dir |-> dir, base |-> base]

Word(text) == Tok("", <<>>, text)

\* hide_absolute_paths: every absolute path with at least one directory is
\* replaced by its basename, what precedes it is kept.
hide_absolute_paths(text) ==
    [k \in 1..Len(text) |-> [text[k] EXCEPT !.dir = <<>>]]

\* str::trim().is_empty().
trim_is_empty(text) ==
    \A k \in 1..Len(text) : text[k] \in {Word(" "), Word("\n")}

\* RunConfig::executable(ws): the executable under the workspace, or an
\* error when it does not exist.
RunConfig_executable(config, ws, fs) ==
    IF exists(fs, config.executable)
    THEN Ok(Tok("", <<ws>>, config.executable))
    ELSE Err(<<"Could not find student executable", config.executable>>)

\* RunConfig::timeout().
RunConfig_timeout(config) == config.timeout

\* Finder::test_resource for the suppression files.
test_resource(fs, name) ==
    IF name \in DOMAIN fs.resources
    THEN Ok(Tok("--suppressions=", <<"resources">>, name))
    ELSE Err("File not found")

\* The --suppressions arguments of gen_cmd, or the first error.
RECURSIVE suppression_args(_, _, _)
suppression_args(fs, names, k) ==
    IF k > Len(names) THEN Ok(<<>>)
    ELSE LET path == test_resource(fs, names[k])
             rest == suppression_args(fs, names, k + 1)
         IN  IF path.tag = "Err" THEN path
             ELSE IF rest.tag = "Err" THEN rest
             ELSE Ok(<<path.res[1]>> \o rest.res[1])

\* Valgrind::gen_cmd.
gen_cmd(stage, ws, fs) ==
    LET supps == IF stage.config.suppressions = None THEN Ok(<<>>)
                 ELSE suppression_args(fs, stage.config.suppressions[1], 1)
        exec == RunConfig_executable(stage.run_config, ws, fs)
        timeout == RunConfig_timeout(stage.run_config)
    IN  IF supps.tag = "Err" THEN supps
        ELSE IF exec.tag = "Err" THEN exec
        ELSE Ok([ Command_args(Command_new("valgrind"),
                      << Word("--log-file=valgrind.log"),
                         Word("--leak-check=yes"),
                         Word("--error-exitcode=125"),
                         Word("--malloc-fill=0xF0"),
                         Word("--free-fill=0x0B") >>
                        \o supps.res[1]
                        \o << Word("--"), exec.res[1] >>
                        \o [k \in 1..Len(stage.run_config.args) |->
                              Word(stage.run_config.args[k])])
                  EXCEPT
                    !.stdin = IF stage.run_config.stdin # None
                              THEN Some(StdinPipe_Path(
                                            stage.run_config.stdin[1]))
                              ELSE @,
                    !.timeout = Some(IF timeout # None
                                     THEN timeout[1] * TIMEOUT_MULT
                                     ELSE Valgrind_DEFAULT_TIMEOUT),
                    !.cwd = Some(ws) ])

\* format!("{}", cmd) for the command gen_cmd builds, as text.
command_line(c) == <<Word(c.program)>> \o c.args

\* Faulty variant of read_logfile: a blank log is handed on.
BlankLogAccepted(fs) ==
    IF ~exists(fs, "valgrind.log") THEN Err("Could not find logfile")
    ELSE Ok(hide_absolute_paths(fs.files["valgrind.log"]))

\* Valgrind::read_logfile.
read_logfile(fs) ==
    IF ~exists(fs, "valgrind.log") THEN Err("Could not find logfile")
    ELSE IF trim_is_empty(fs.files["valgrind.log"])
    THEN Err("Found empty valgrind log")
    ELSE Ok(hide_absolute_paths(fs.files["valgrind.log"]))

\* Faulty variant of valgrind_error_code: every exit code counts as
\* valgrind's.
AnyCodeIsValgrinds(rc) == TRUE

\* Whether a Failure's code is one valgrind exits with on errors.
valgrind_error_code(rc) == ~(rc < ERROR_EXITCODE)

\* Valgrind::run once the executor returned r and the log was read.
Valgrind_finish(loc, config, r, fs) ==
    IF r.tag = "Err" THEN Err(r.err[1])
    ELSE
    LET res == r.res[1]
        log == read_logfile(fs)
        with_log(updates) ==
            add_content(
                add_content(loc.sect, StatusList(updates)),
                SubSection(add_content(loc.results_sect,
                                       Content_from_text(log.res[1]))))
        failing(notes) ==
            add_update(loc.run_updates,
                       set_notes(Update_new_fail("running valgrind",
                                                 config.points),
                                 Content_from_text(notes)))
    IN  IF log.tag = "Err" THEN Err(log.err[1])
        ELSE IF res.status.tag = "Timeout"
        THEN LET secs == res.status.duration[1]
                 updates ==
                     failing(<< "Your submission timed out after", secs,
                                IF secs = 1 THEN "second" ELSE "seconds",
                                ":(" >>)
             IN  Ok(StageResult(Continue_points_lost(config.points),
                        Some(Output_section(Output_new,
                            add_content(loc.sect, StatusList(updates))))))
        ELSE IF res.status.tag = "Signal"
        THEN LET updates ==
                     failing(<< "Your submission was killed by",
                                IF res.status.signal[1] = "Abort"
                                THEN "SIGABRT" ELSE "SIGSEGV",
                                "!" >>)
             IN  Ok(StageResult(Continue_points_lost(config.points),
                        Some(Output_section(Output_new, with_log(updates)))))
        ELSE IF res.status.tag = "Ok"
        THEN LET updates == add_update(loc.run_updates,
                                       Update_new_pass("running valgrind"))
             IN  Ok(StageResult(Continue_points_lost(PointQuantity_zero),
                        Some(Output_section(Output_new, with_log(updates)))))
        ELSE IF ~valgrind_error_code(res.status.rc[1])
        THEN Err(<< "Error: expected exit code to be at least",
                    ERROR_EXITCODE, "was", res.status.rc[1] >>)
        ELSE Ok(StageResult(Continue_points_lost(config.points),
                    Some(Output_section(Output_new,
                        with_log(failing("Valgrind Errors Detected"))))))

\* Valgrind::run when gen_cmd fails: a system error.
ValgrindGenFails ==
    /\ stg.kind = "Valgrind"
    /\ stpc = "start"
    /\ gen_cmd(stg, Workspace, wsfs).tag = "Err"
    /\ stret' = Returned(Err(gen_cmd(stg, Workspace, wsfs).err[1]))
    /\ stpc' = "done"
    /\ UNCHANGED << stg, wsfs, xcmds, xrets, lfinds, stloc >>

\* Valgrind::run up to its await: the locals, the command and its "Run
\* Command" sub-section, the call of the executor.
ValgrindCalls ==
    /\ stg.kind = "Valgrind"
    /\ stpc = "start"
    /\ gen_cmd(stg, Workspace, wsfs).tag = "Ok"
    /\ LET c == gen_cmd(stg, Workspace, wsfs).res[1]
       IN  /\ stloc' = [ sect |->
                             add_content(Section_new("Valgrind"),
                                 Content_from_pair("Run Command",
                                     Block(RichText_code(
                                         hide_absolute_paths(
                                             command_line(c)))))),
                         results_sect |-> Section_new("Output"),
                         run_updates |-> StatusUpdates_default ]
           /\ xcmds' = Append(xcmds, c)
    /\ stpc' = "await"
    /\ UNCHANGED << stg, wsfs, xrets, lfinds, stret >>

\* The log valgrind may have left in the workspace: none, blank, or a
\* report that names a file by its absolute path.
LogFiles ==
    { None, Some(<<Word(" "), Word("\n")>>),
      Some(<< Word("==1== ERROR SUMMARY"),
              Tok("at ", <<"home", "student">>, "main.c") >>) }

\* The executor returns, the log is read and Valgrind::run runs to its
\* end.
ValgrindReturns ==
    /\ stg.kind = "Valgrind"
    /\ stpc = "await"
    /\ \E r \in ExecutorOutcomes, log \in LogFiles :
         LET fs == IF log = None THEN wsfs
                   ELSE [wsfs EXCEPT
                           !.files = ("valgrind.log" :> log[1]) @@ @]
         IN  /\ wsfs' = fs
             /\ xrets' = Append(xrets, r)
             /\ stret' = Returned(Valgrind_finish(stloc, stg.config, r, fs))
    /\ stpc' = "done"
    /\ UNCHANGED << stg, xcmds, lfinds, stloc >>

(* ============================ the stage run ============================ *)
\* What a stage finds around it: the files under the workspace with their
\* content, the programs in PATH, and the files the resource locator finds.
Fs(files, programs, resources) ==
    [files |-> files, programs |-> programs, resources |-> resources]

CompileStages ==
    { Compile_new([make_args |-> a]) : a \in {None, Some(<<"all">>)} }

\* The Run stages: with or without a return-code check, a timeout and the
\* garbage-memory wrapper.
RunStages ==
    { [ kind |-> "Run",
        config |-> [ args |-> <<"-v">>, executable |-> "a.out",
                     timeout |-> t, stdout |-> Some("stdout.txt"),
                     stderr |-> None, stdin |-> None, return_code |-> rc,
                     disable_garbage_memory |-> g ] ] :
        t \in {None, Some(MaxTimeout)},
        g \in {None, Some(TRUE)},
        rc \in {None}
               \cup { Some([expected |-> e, points |-> q]) :
                        e \in 0..1,
                        q \in {FullPoints}
                              \cup { PointQuantity_Partial(p) :
                                       p \in 0..MaxPoints } } }

\* The k-th comparison: its student file, worth full points or a partial
\* quantity; a Diff over none, one or two expected files, a Grep or a
\* ReverseGrep.
Compares(k, show) ==
    { [ expected |-> e, student_file |-> <<"student", k>>,
        compare_type |-> "Diff", points |-> q, show_output |-> show ] :
        e \in {<<>>, <<"e1">>, <<"e1", "e2">>},
        q \in {FullPoints, PointQuantity_Partial(1),
               PointQuantity_Partial(MaxPoints)} }
      \cup { [ expected |-> <<"e1">>, student_file |-> <<"student", k>>,
               compare_type |-> t, points |-> FullPoints,
               show_output |-> show ] : t \in {"Grep", "ReverseGrep"} }

\* The CompareFiles stages: up to MaxCompares comparisons, their output
\* shown or hidden.
CompareStages ==
    { [kind |-> "CompareFiles", config |-> [compares |-> c]] :
        c \in UNION { { f \in [1..n -> UNION { Compares(k, show) :
                                                 k \in 1..n }] :
                          \A k \in 1..n : f[k] \in Compares(k, show) } :
                      n \in 0..MaxCompares, show \in BOOLEAN } }

\* The workspaces of a stage of n comparisons: any of the student files
\* may be missing; the locator finds both expected files, one, or none.
CompareWorkspaces(n) ==
    { Fs([name \in { <<"student", k>> : k \in present } |-> <<97, 10>>], {},
         [name \in found |-> IF name = "e1" THEN <<98>> ELSE <<97, 10>>]) :
        present \in SUBSET (1..n), found \in {{}, {"e1"}, {"e1", "e2"}} }

\* The Valgrind stages: the points of the stage, with or without a
\* suppression file and a run timeout.
ValgrindStages ==
    { [ kind |-> "Valgrind",
        config |-> [points |-> q, suppressions |-> s],
        run_config |-> [ args |-> <<"-v">>, executable |-> "a.out",
                         timeout |-> t, stdin |-> None ] ] :
        q \in {FullPoints} \cup { PointQuantity_Partial(p) : p \in 0..MaxPoints },
        s \in {None, Some(<<"supp">>)},
        t \in {None, Some(MaxTimeout)} }

ValgrindWorkspaces ==
    { Fs(f, {"valgrind"}, res) :
        f \in {<<>>, "a.out" :> "elf"},
        res \in {<<>>, "supp" :> "{ rule }"} }

RunWorkspaces ==
    { Fs(f, p, <<>>) : f \in {<<>>, "a.out" :> "elf"},
                       p \in {{}, {"valgrind"}} }

StageInit ==
    /\ GenosIdle
    /\ TestRunIdle
    /\ ProcIdle
    /\ FnIdle
    /\ \/ stg \in CompileStages /\ wsfs = Fs(<<>>, {}, <<>>)
       \/ stg \in RunStages /\ wsfs \in RunWorkspaces
       \/ /\ stg \in CompareStages
          /\ wsfs \in CompareWorkspaces(Len(stg.config.compares))
       \/ stg \in ValgrindStages /\ wsfs \in ValgrindWorkspaces
    /\ xcmds = <<>>
    /\ xrets = <<>>
    /\ lfinds = <<>>
    /\ stpc = IF stg.kind = "CompareFiles" THEN "loop" ELSE "start"
    /\ stloc = IF stg.kind = "CompareFiles" THEN CompareLocals ELSE <<>>
    /\ stret = Running

StageNext ==
    \/ CompileCalls /\ UNCHANGED nonStageVars
    \/ CompileReturns /\ UNCHANGED nonStageVars
    \/ RunMissing /\ UNCHANGED nonStageVars
    \/ RunCalls /\ UNCHANGED nonStageVars
    \/ RunReturns /\ UNCHANGED nonStageVars
    \/ CompareMissing /\ UNCHANGED nonStageVars
    \/ CompareStart /\ UNCHANGED nonStageVars
    \/ CompareReturns /\ UNCHANGED nonStageVars
    \/ CompareDone /\ UNCHANGED nonStageVars
    \/ ValgrindGenFails /\ UNCHANGED nonStageVars
    \/ ValgrindCalls /\ UNCHANGED nonStageVars
    \/ ValgrindReturns /\ UNCHANGED nonStageVars

SpecStage == StageInit /\ [][StageNext]_vars

(* ==================== TestConfig::validate (config.rs) ================= *)
\* The parts of a TestConfig that carry points: the total of the test's
\* description, the return-code check of the run, the comparisons and the
\* valgrind stage.
TestConfig(total_points, return_code, compares, valgrind) ==
    [ total_points |-> total_points, return_code |-> return_code,
      compares |-> compares, valgrind |-> valgrind ]

RECURSIVE fold_points(_, _)
fold_points(quantities, k) ==
    IF k = 0 THEN 0 ELSE fold_points(quantities, k - 1) + quantities[k].points[1]

\* TestConfig::validate: the quantities of the return-code check and of
\* the comparisons must be all FullPoints or all Partial, and the partial
\* ones must add up to total_points.
validate(config) ==
    LET configured_points ==
            (IF config.return_code # None THEN <<config.return_code[1]>>
             ELSE <<>>)
              \o (IF config.compares # None THEN config.compares[1] ELSE <<>>)
        all_full_points ==
            \A k \in 1..Len(configured_points) :
              is_full_points(configured_points[k])
        all_partial_points ==
            \A k \in 1..Len(configured_points) :
              ~is_full_points(configured_points[k])
    IN  IF ~(all_full_points \/ all_partial_points)
        THEN Err("MixedPointQuantities")
        ELSE IF /\ all_partial_points
                /\ fold_points(configured_points, Len(configured_points))
                     # config.total_points
        THEN Err("InvalidPointTotal")
        ELSE Ok("unit")

(* ================= the wait status of a child (process.rs) ============= *)
\* The status the OS reports for a child that called exit(arg) or was
\* killed by a signal: only the low 8 bits of the argument are kept.
wait_status(ending) ==
    IF ending.kind = "exit" THEN StdExited(ending.arg % 256)
    ELSE StdSignaled(ending.arg)

(* ===================== Sub, SubAssign (points.rs) ====================== *)
\* A u64 as four 16-bit limbs, the most significant first.
U64(n) == <<0, 0, 0, n>>

\* u64 subtraction modulo 2^64, limb by limb with borrow.
wrapping_sub(a, b) ==
    LET d4 == a[4] - b[4]
        b4 == IF d4 < 0 THEN 1 ELSE 0
        d3 == a[3] - b[3] - b4
        b3 == IF d3 < 0 THEN 1 ELSE 0
        d2 == a[2] - b[2] - b3
        b2 == IF d2 < 0 THEN 1 ELSE 0
        d1 == a[1] - b[1] - b2
    IN  << d1 % 65536, d2 % 65536, d3 % 65536, d4 % 65536 >>

\* a < b for u64 values whose upper limbs are zero.
u64_lt(a, b) == a[4] < b[4]

\* Whether `-` on u64 is compiled with overflow checks: in a debug build,
\* not in a release build.
sub_overflow_checked(build) == build = "debug"

\* Sub for Points: self.0 - rhs.0, a panic on overflow when checked and
\* the wrapped difference otherwise.
Points_sub(lhs, rhs, build) ==
    IF u64_lt(lhs, rhs) /\ sub_overflow_checked(build) THEN Panicked
    ELSE Returned(wrapping_sub(lhs, rhs))

\* SubAssign for Points: the assertion, then the subtraction.
Points_sub_assign(lhs, rhs, build) ==
    IF ~(~u64_lt(lhs, rhs)) THEN Panicked
    ELSE Returned(wrapping_sub(lhs, rhs))

(* ================= ShellExecutor::attach_pipes (process.rs) ============ *)
\* The stdio of the process as ShellExecutor::run sets it before
\* attach_pipes: stdout and stderr piped, stdin as tokio leaves it.
run_stdio == [stdin |-> "inherit", stdout |-> "piped", stderr |-> "piped"]

\* ShellExecutor::attach_pipes: three ifs, over cmd.stdin, cmd.stderr and
\* cmd.stdout, in this order.
attach_pipes(c, process) ==
    LET p1 == IF c.stdin # None THEN [process EXCEPT !.stdin = "piped"]
              ELSE process
        p2 == IF c.stderr # None THEN [p1 EXCEPT !.stdin = "piped"] ELSE p1
    IN  IF c.stdout # None THEN [p2 EXCEPT !.stdout = "piped"] ELSE p2

(* ========================== one function call ========================== *)
Quantities ==
    {FullPoints} \cup { PointQuantity_Partial(p) : p \in 0..MaxPoints }

\* The TestConfigs: a total, with or without a return-code check, a list
\* of comparisons and a valgrind stage.
TestConfigs ==
    { TestConfig(t, rc, c, v) :
        t \in 0..(MaxPoints + MaxPoints),
        rc \in {None} \cup { Some(q) : q \in Quantities },
        c \in {None}
              \cup { Some(s) :
                       s \in UNION { [1..n -> Quantities] :
                                       n \in 0..MaxCompares } },
        v \in {None} \cup { Some(q) : q \in Quantities } }

\* How a child ends: exit with an argument, or a signal.
Endings ==
    { [kind |-> "exit", arg |-> c] :
        c \in {-10, -1, 0, 6, 255, 256, 257} \cup (1..MaxExitCode) }
      \cup { [kind |-> "signal", arg |-> s] : s \in {6, 9, 11, 15} }

\* The builds of the crate.
Builds == {"debug", "release"}

\* The bytes of the files that are shown: NUL, TAB, LF and the printable
\* space, 0, backslash, n and |.
FileBytes == {0, 9, 10, 32, 48, 92, 110, 124}

\* The contents of the files that are shown.
FileContents ==
    UNION { [1..n -> FileBytes] : n \in 0..MaxContent }

FnInit ==
    /\ GenosIdle
    /\ TestRunIdle
    /\ ProcIdle
    /\ StageIdle
    /\ \/ \E c \in TestConfigs : fcall = [fn |-> "validate", config |-> c]
       \/ \E e \in Endings : fcall = [fn |-> "ExitStatus::from", ending |-> e]
       \/ \E c \in Commands : fcall = [fn |-> "attach_pipes", cmd |-> c]
       \/ \E c \in FileContents :
            fcall = [fn |-> "load_transformed_content", contents |-> c]
       \/ \E op \in {"sub", "sub_assign"}, a, b \in 0..MaxPoints,
             build \in Builds :
            fcall = [ fn |-> op, lhs |-> U64(a * 25), rhs |-> U64(b * 25),
                      build |-> build ]
    /\ fret = Running

\* TestConfig::validate is called.
Validate ==
    /\ fcall.fn = "validate"
    /\ fret = Running
    /\ fret' = Returned(validate(fcall.config))
    /\ UNCHANGED fcall

\* ExitStatus::from is called with the status of a child that ended.
ExitStatusFrom ==
    /\ fcall.fn = "ExitStatus::from"
    /\ fret = Running
    /\ fret' = IF ExitStatus_from_panics(wait_status(fcall.ending))
               THEN Panicked
               ELSE Returned(ExitStatus_from(wait_status(fcall.ending)))
    /\ UNCHANGED fcall

\* lhs - rhs on Points.
PointsSub ==
    /\ fcall.fn = "sub"
    /\ fret = Running
    /\ fret' = Points_sub(fcall.lhs, fcall.rhs, fcall.build)
    /\ UNCHANGED fcall

\* lhs -= rhs on Points.
PointsSubAssign ==
    /\ fcall.fn = "sub_assign"
    /\ fret = Running
    /\ fret' = Points_sub_assign(fcall.lhs, fcall.rhs, fcall.build)
    /\ UNCHANGED fcall

\* ShellExecutor::run configures the process and calls attach_pipes.
AttachPipes ==
    /\ fcall.fn = "attach_pipes"
    /\ fret = Running
    /\ fret' = Returned(attach_pipes(fcall.cmd, run_stdio))
    /\ UNCHANGED fcall

\* load_transformed_content is called on the file "test".
LoadTransformedContent ==
    /\ fcall.fn = "load_transformed_content"
    /\ fret = Running
    /\ fret' = Returned(load_transformed_content(
                   [name \in {"test"} |-> fcall.contents], "test"))
    /\ UNCHANGED fcall

FnNext ==
    \/ Validate /\ UNCHANGED nonFnVars
    \/ LoadTransformedContent /\ UNCHANGED nonFnVars
    \/ AttachPipes /\ UNCHANGED nonFnVars
    \/ ExitStatusFrom /\ UNCHANGED nonFnVars
    \/ PointsSub /\ UNCHANGED nonFnVars
    \/ PointsSubAssign /\ UNCHANGED nonFnVars

SpecFn == FnInit /\ [][FnNext]_vars

(* ======================= ghost views for the claims ==================== *)
HasOutcome(g) == outcome[g] # None

Errored(g) == HasOutcome(g) /\ outcome[g][1].tag = "Err"

SetupErrored == \E k \in 1..NSetup : Errored(k)

\* The RunResult the g-th configured test must be recorded as.
ExpectedRunResult(g) ==
    IF Errored(g)
    THEN RunResult(TestAt(g),
                   TestResult(Fail(zero_points(TestAt(g).points)),
                              <<Section("System Error Occurred",
                                        "Please report this to course staff")>>),
                   outcome[g][1].err)
    ELSE RunResult(TestAt(g), outcome[g][1].res[1], None)

AfterTests == pc \in {"write", "fold", "done"}

(* ============================== claims ================================= *)

\* C1: if the k-th setup test produced a system error, no setup test after
\* k and no regular test is ever started: run_test is never entered for it,
\* its run is never invoked, its workspace is never created.
C1_SetupErrorStopsScheduling ==
    \A k \in 1..NSetup :
        Errored(k) =>
            \A g \in (k + 1)..NAll :
                /\ phase[g] = "idle"
                /\ invoked[g] = 0
                /\ TestAt(g).id \notin dirs
                /\ \A j \in 1..Len(startOrder) : startOrder[j] # g

C1_Witness ==
    /\ pc = "done"
    /\ NSetup = 2 /\ NTests = 2
    /\ Errored(1)
    /\ invoked[1] = 1

\* C2: when a setup test produces a system error, every writer is still
\* invoked with exactly the results collected so far (one entry per setup
\* test up to and including the failing one, in configured order, none for
\* later tests), and run then returns an error.
C2_SetupErrorWritersThenErr ==
    (pc = "done" /\ SetupErrored) =>
        LET k == CHOOSE j \in 1..NSetup : Errored(j)
        IN  /\ \A w \in 1..NWriters :
                  /\ wcalls[w] = 1
                  /\ Len(wgot[w]) = k
                  /\ \A i \in 1..k : wgot[w][i].id = setup[i].id
            /\ ret.kind = "Returned"
            /\ ret.value[1].tag = "Err"

\* C3: when no setup test produced a system error, every regular test is
\* run, whatever its siblings returned, and contributes exactly one entry
\* to the list handed to the writers, an erroring test as Fail(0/max).
C3_RegularErrorsIsolated ==
    (AfterTests /\ ~SetupErrored) =>
        /\ \A i \in 1..NTests : phase[NSetup + i] = "done"
        /\ Len(results) = NAll
        /\ \A w \in 1..NWriters :
              wphase[w] # "idle" =>
                  /\ Len(wgot[w]) = NAll
                  /\ \A i \in 1..NTests :
                        LET mine == {j \in 1..NAll : wgot[w][j].id = tests[i].id}
                        IN  /\ Cardinality(mine) = 1
                            /\ Errored(NSetup + i) =>
                                  \A j \in mine :
                                      wgot[w][j].status =
                                          Fail(zero_points(tests[i].points))

C3_Witness ==
    /\ pc = "done"
    /\ NTests = 2 /\ NWriters >= 1
    /\ ~SetupErrored
    /\ Errored(NSetup + 1)
    /\ ~Errored(NSetup + 2)
    /\ finishOrder = <<1, 2>>

\* C4: for every order in which the regular tests finish, the result list
\* (handed to the writers and returned by run) is in input order: entry i
\* belongs to the i-th configured test, setups first.
C4_ResultsInInputOrder ==
    AfterTests =>
        LET expected == [i \in 1..Len(results) |-> ExpectedRunResult(i)]
        IN  /\ results = expected
            /\ \A w \in 1..NWriters :
                  wphase[w] # "idle" => wgot[w] = WriterInput(expected)
            /\ (ret.kind = "Returned" /\ ret.value[1].tag = "Ok") =>
                  ret.value[1].res[1] = [i \in 1..NAll |-> outcome[i][1].res[1]]

C4_Witness ==
    /\ pc = "done"
    /\ NSetup >= 1
    /\ finishOrder = <<2, 1>>
    /\ outcome[NSetup + 1] # outcome[NSetup + 2]
    /\ NWriters >= 1
    /\ ret.kind = "Returned"
    /\ ret.value[1].tag = "Ok"

\* C5: run returns Ok with the full ordered list (one TestResult per setup
\* and regular test) if and only if no test produced a system error;
\* otherwise it returns an error, the first system error in result order.
C5_RunReturnsOkIffNoError ==
    pc = "done" =>
        LET errs == {g \in 1..NAll : Errored(g)}
        IN  IF errs = {}
            THEN ret = Returned(Ok([g \in 1..NAll |-> outcome[g][1].res[1]]))
            ELSE LET first == CHOOSE g \in errs : \A h \in errs : g <= h
                 IN  ret = Returned(Err(FoundSystemError(
                                           outcome[first][1].err[1])))

\* C6: a test whose execution ended in a system error (from create_dir or
\* from its run) is recorded with status Fail(zero_points(points)), an
\* output holding a "System Error Occurred" section and the error beside
\* it; a test that returned a TestResult is recorded unchanged, no error.
C6_RecordedResult(g, rr) ==
    IF Errored(g)
    THEN /\ rr.res.status = Fail(zero_points(TestAt(g).points))
         /\ contains(rr.res.output, "System Error Occurred")
         /\ rr.err = outcome[g][1].err
    ELSE /\ rr.res = outcome[g][1].res[1]
         /\ rr.err = None

C6_SystemErrorRecorded ==
    /\ \A k \in 1..NSetup :
          phase[k] = "done" =>
              \E j \in 1..Len(results) :
                  results[j].test = setup[k] /\ C6_RecordedResult(k, results[j])
    /\ \A i \in 1..NTests :
          phase[NSetup + i] = "done" =>
              /\ tres[i] # None
              /\ tres[i][1].test = tests[i]
              /\ C6_RecordedResult(NSetup + i, tres[i][1])

C6_Witness ==
    /\ NSetup = 1 /\ NTests = 2
    /\ \A g \in 1..NAll : phase[g] = "done"
    /\ ~Errored(1)
    /\ Errored(2) /\ outcome[2][1].err[1].kind = "create_dir"
    /\ Errored(3) /\ outcome[3][1].err[1].kind = "run"

\* C7: no writer is invoked while a test is running; each writer is called
\* once, with the full ordered result list, after every started test has
\* finished, and all writers have completed when run ends.
C7_WritersAfterTests ==
    /\ \A w \in 1..NWriters :
          /\ wcalls[w] <= 1
          /\ wphase[w] # "idle" =>
                /\ wcalls[w] = 1
                /\ \A g \in 1..NAll : ~IsRunning(g)
                /\ wgot[w] = WriterInput(results)
                /\ Len(wgot[w]) = Cardinality({g \in 1..NAll : phase[g] = "done"})
    /\ pc \in {"fold", "done"} =>
          \A w \in 1..NWriters : wcalls[w] = 1 /\ wphase[w] \in {"ok", "err"}

C7_Witness ==
    /\ pc = "done"
    /\ ret.kind = "Returned"
    /\ NWriters = 2 /\ NTests = 2 /\ NSetup = 1
    /\ Errored(NSetup + 1)

\* C8: if one writer's write returns an error, every other configured
\* writer is still invoked with the full result list and runs to completion.
C8_WriterErrorIsolated ==
    (\E w \in 1..NWriters : wphase[w] = "err") =>
        /\ \A v \in 1..NWriters :
              /\ (wphase[v] = "idle" /\ \A u \in 1..(v - 1) : wphase[u] # "idle")
                    => ENABLED WriterStart(v)
              /\ wphase[v] = "writing" => ENABLED WriterReturns(v)
              /\ wphase[v] # "idle" => wgot[v] = WriterInput(results)
        /\ pc # "write" =>
              \A v \in 1..NWriters :
                  /\ wcalls[v] = 1
                  /\ wphase[v] \in {"ok", "err"}
                  /\ Len(wgot[v]) = Len(results)

C8_Witness ==
    /\ pc = "done"
    /\ NWriters = 2
    /\ wphase[1] = "err"
    /\ wphase[2] = "ok"
    /\ Len(wgot[2]) = 4

\* C9: a writer failure does not fail the run: when a writer's write
\* returned an error, run still returns the value the tests alone determine
\* (Ok with the results, or the first test system error), it does not panic.
C9_WriterFailureNotFatal ==
    (pc = "done" /\ \E w \in 1..NWriters : wphase[w] = "err") =>
        ret = Returned(fold_results(results))

\* C10: setup tests are strictly serialized: at most one is running at any
\* time, setup k+1 starts only after setup k has finished, they start in
\* configured order, and no regular test starts before the last setup test
\* has finished.
C10_SetupsSerialized ==
    /\ Cardinality({k \in 1..NSetup : IsRunning(k)}) <= 1
    /\ \A k \in 1..(NSetup - 1) : phase[k + 1] # "idle" => phase[k] = "done"
    /\ \A a \in 1..Len(startOrder) : \A b \in (a + 1)..Len(startOrder) :
          startOrder[a] <= NSetup => startOrder[a] < startOrder[b]
    /\ \A i \in 1..NTests :
          phase[NSetup + i] # "idle" => \A k \in 1..NSetup : phase[k] = "done"

C10_Witness ==
    /\ NSetup = 2 /\ NTests = 2
    /\ startOrder = <<1, 2, 3, 4>>
    /\ IsRunning(3) /\ IsRunning(4)

(* ================================ C11 ================================= *)
\* C11: each test's workspace directory test_<id> exists before the test's
\* run is invoked; when create_dir fails the test's run is never invoked
\* and the failure is the system error of that test alone: it carries that
\* test's id, no other test records it, and the other regular tests are
\* still run.
CreateDirFailed(g) ==
    Errored(g) /\ outcome[g][1].err[1].kind = "create_dir"

C11_WorkspaceBeforeRun ==
    /\ \A g \in 1..NAll :
         /\ phase[g] = "running" => TestAt(g).id \in dirs
         /\ invoked[g] > 0 => TestAt(g).id \in dirs
         /\ CreateDirFailed(g) =>
              /\ invoked[g] = 0
              /\ TestAt(g).id \notin dirs
              /\ outcome[g][1].err[1].id = TestAt(g).id
              /\ \A h \in (1..NAll) \ {g} :
                   Errored(h) => outcome[h][1].err[1].id # TestAt(g).id
    /\ (AfterTests /\ ~SetupErrored) =>
         \A i \in 1..NTests :
           /\ HasOutcome(NSetup + i)
           /\ invoked[NSetup + i] = 0 <=> CreateDirFailed(NSetup + i)

\* The first regular test's create_dir failed, the second one ran in its
\* own workspace and passed.
C11_Witness ==
    /\ pc = "done"
    /\ NTests = 2
    /\ CreateDirFailed(NSetup + 1)
    /\ invoked[NSetup + 1] = 0
    /\ invoked[NSetup + 2] = 1
    /\ tests[2].id \in dirs
    /\ outcome[NSetup + 2][1].tag = "Ok"

(* ================= ghost views of one GenosTest::run =================== *)
StageReturned(i) == sret[i] # None

StageErred(i) == StageReturned(i) /\ sret[i][1].tag = "Err"

StageOk(i) == StageReturned(i) /\ sret[i][1].tag = "Ok"

StageUnrecoverable(i) ==
    StageOk(i) /\ sret[i][1].res[1].status = UnrecoverableFailure

\* The output the stages 1..i returned, in stage order.
RECURSIVE OutputUpTo(_)
OutputUpTo(i) ==
    IF i = 0 THEN <<>>
    ELSE OutputUpTo(i - 1) \o unwrap_or(sret[i][1].res[1].output, <<>>)

TestReturnedOk == tret.kind = "Returned" /\ tret.value[1].tag = "Ok"

(* ================================ C12 ================================= *)
\* C12: GenosTest::run calls the stages in their configured order, one at a
\* time: stage i+1 is called only after stage i returned, at most one stage
\* is running, and no stage is called more than once.
C12_StagesInOrder ==
    /\ \A k \in 1..Len(sorder) : sorder[k] = k
    /\ \A i \in 1..NStages :
         /\ scalls[i] <= 1
         /\ sphase[i] = "running" =>
                \A j \in 1..NStages : sphase[j] = "running" => j = i
         /\ (i > 1 /\ scalls[i] > 0) => sphase[i - 1] = "returned"

\* Three stages were called, 1 then 2 then 3, and all returned.
C12_Witness ==
    /\ NStages = 3
    /\ tpc = "done"
    /\ sorder = <<1, 2, 3>>
    /\ \A i \in 1..3 : sphase[i] = "returned" /\ scalls[i] = 1

(* ================================ C13 ================================= *)
\* C13: when a stage returns a system error, GenosTest::run returns that
\* error and no TestResult, and no later stage is called.
C13_StageErrorReturned ==
    \A i \in 1..NStages :
        StageErred(i) =>
            /\ tpc = "done"
            /\ tret = Returned(Err(StageError(i)))
            /\ tret.value[1].res = None
            /\ \A j \in (i + 1)..NStages :
                   scalls[j] = 0 /\ sphase[j] = "idle"

\* The second of three stages returned a system error after the first one
\* continued: run returned that error and stage 3 was never called.
C13_Witness ==
    /\ NStages = 3
    /\ StageOk(1)
    /\ StageErred(2)
    /\ tret = Returned(Err(StageError(2)))
    /\ scalls[3] = 0

(* ================================ C14 ================================= *)
\* C14: when a stage returns UnrecoverableFailure the test's result is
\* Fail(zero_points(max)) whatever the earlier stages returned, no later
\* stage is called, and the output of that stage and of every earlier stage
\* is in the result, in stage order.
C14_UnrecoverableFailure ==
    \A i \in 1..NStages :
        StageUnrecoverable(i) =>
            /\ tpc = "done"
            /\ tret = Returned(Ok(TestResult(Fail(zero_points(tpoints)),
                                             OutputUpTo(i))))
            /\ \A j \in (i + 1)..NStages :
                   scalls[j] = 0 /\ sphase[j] = "idle"

\* Stage 1 earned all its points and stage 2 failed beyond recovery, both
\* with output: the result is Fail(0/max) with both sections in order, and
\* stage 3 was never called.
C14_Witness ==
    /\ NStages = 3
    /\ tpoints = 2
    /\ sret[1] = Some(Ok(StageResult(Continue(Partial(Score(2, 2))),
                                     Some(<<Section("stage", "1")>>))))
    /\ sret[2] = Some(Ok(StageResult(UnrecoverableFailure,
                                     Some(<<Section("stage", "2")>>))))
    /\ TestReturnedOk
    /\ tret.value[1].res[1] =
           TestResult(Fail(Score(0, 2)),
                      <<Section("stage", "1"), Section("stage", "2")>>)
    /\ scalls[3] = 0

(* ================== ghost views of the stages' points ================== *)
StageContinue(i) == StageOk(i) /\ sret[i][1].res[1].status.tag = "Continue"

StagePointsOf(i) == sret[i][1].res[1].status.points[1]

StagePartial(i) == StageContinue(i) /\ StagePointsOf(i).tag = "Partial"

StageAbsolute(i, passed) ==
    /\ StageContinue(i)
    /\ StagePointsOf(i).tag = "Absolute"
    /\ StagePointsOf(i).passed[1] = passed

\* The points stage i took off: what its partial score misses.
Deduction(i) ==
    IF StagePartial(i)
    THEN StagePointsOf(i).score[1].possible - StagePointsOf(i).score[1].received
    ELSE 0

Share(i) == IF StagePartial(i) THEN StagePointsOf(i).score[1].possible ELSE 0

RECURSIVE SumDeductions(_)
SumDeductions(n) == IF n = 0 THEN 0 ELSE SumDeductions(n - 1) + Deduction(n)

RECURSIVE SumShares(_)
SumShares(n) == IF n = 0 THEN 0 ELSE SumShares(n - 1) + Share(n)

AllContinue == \A i \in 1..NStages : StageContinue(i)

AllPartial == \A i \in 1..NStages : StagePartial(i)

ClampAtZero(n) == IF n < 0 THEN 0 ELSE n

(* ================================ C15 ================================= *)
\* C15: when every stage returns Continue and one of them is a failed
\* pass/fail stage (a full-points loss), the final result is
\* Fail(zero_points(max)) with the output of all stages appended.
C15_FullLossFailsTest ==
    ( /\ tpc = "done"
      /\ AllContinue
      /\ \E i \in 1..NStages : StageAbsolute(i, FALSE) )
    => tret = Returned(Ok(TestResult(Fail(zero_points(tpoints)),
                                     OutputUpTo(NStages))))

StageZeroDeduction(i) ==
    \/ StagePartial(i) /\ Deduction(i) = 0
    \/ StageAbsolute(i, TRUE)

C18_NoDeductionPasses ==
    (tpc = "done" /\ \A i \in 1..NStages : StageZeroDeduction(i))
    => tret = Returned(Ok(TestResult(Pass(full_points(tpoints)),
                                     OutputUpTo(NStages))))

ReturnedOutput == pret.kind = "Returned" /\ pret.value[1].tag = "Ok"

C20_TimeoutReturnsAtOnce ==
    /\ (ppc = "wait" /\ cmd.timeout # None) => clock <= cmd.timeout[1]
    /\ (ppc = "wait" /\ child = "running" /\ cmd.timeout = Some(clock))
          => ENABLED TimeoutFires
    /\ (ppc = "done" /\ ReturnedOutput /\ cstatus = None)
          => /\ cmd.timeout # None
             /\ pret = Returned(Ok(ProcessOutput(Timeout(cmd.timeout[1]),
                                                 <<>>, <<>>)))
             /\ retAt = Some(cmd.timeout[1])
             /\ child = "killed"
    /\ (ReturnedOutput /\ pret.value[1].res[1].status.tag = "Timeout")
          => cstatus = None /\ child = "killed"

\* A command with timeout 2 and a stdin source: run returned Timeout(2) at
\* tick 2 while the stdin task and both readers were still running, and
\* the child was killed.
C20_Witness ==
    /\ cmd.timeout = Some(2)
    /\ cmd.stdin # None
    /\ pret = Returned(Ok(from_exit_status(Timeout(2))))
    /\ retAt = Some(2)
    /\ child = "killed"
    /\ io.stdin.state = "running"
    /\ io.stdout.state = "running"
    /\ io.stderr.state = "running"

(* ==================== ghost views of one stage run ===================== *)
\* The stage's run returned Ok(StageResult).
StageRunOk == stret.kind = "Returned" /\ stret.value[1].tag = "Ok"

\* The stage's run returned Err: a system error.
StageRunErr == stret.kind = "Returned" /\ stret.value[1].tag = "Err"

\* The StageResult a run returned.
StageRunResult == stret.value[1].res[1]

\* The k-th call of the executor returned Ok(process::Output).
ExecutorOk(k) == k <= Len(xrets) /\ xrets[k].tag = "Ok"

ExecutorOutput(k) == xrets[k].res[1]

\* The output is one section with this header whose only content is a
\* status list of one update.
SingleUpdateOutput(output, header) ==
    /\ output # None
    /\ Len(output[1]) = 1
    /\ output[1][1].header = header
    /\ Len(output[1][1].content) = 1
    /\ output[1][1].content[1].tag = "StatusList"
    /\ Len(output[1][1].content[1].updates) = 1

TheUpdate(output) == output[1][1].content[1].updates[1]

\* The notes show this text as a block, at the top or in a sub-section of a
\* multi-line content.
NotesShow(notes, text) ==
    /\ notes # None
    /\ \/ notes[1].tag = "Block" /\ notes[1].text.text = text
       \/ /\ notes[1].tag = "Multiline"
          /\ \E i \in 1..Len(notes[1].contents) :
               LET c == notes[1].contents[i]
               IN  /\ c.tag = "SubSection"
                   /\ \E j \in 1..Len(c.section.content) :
                        /\ c.section.content[j].tag = "Block"
                        /\ c.section.content[j].text.text = text

(* ================================ C21 ================================= *)
\* C21: Compile::run hands the executor one command, make with the
\* configured arguments and the workspace as working directory.  When the
\* executor returns an Output with status Ok, run returns Continue with
\* zero points lost and one passing update; for every other status
\* (Failure, Timeout, Signal) it returns UnrecoverableFailure with one
\* failing FullPoints update whose notes show the captured stdout and the
\* captured stderr.
C21_CompileOutcome ==
    /\ (stg.kind = "Compile" /\ stpc \in {"await", "done"})
          => xcmds = << [ program |-> "make", args |-> stg.args,
                          cwd |-> Some(Workspace), stdin |-> None,
                          stderr |-> None, stdout |-> None,
                          timeout |-> None ] >>
    /\ (stg.kind = "Compile" /\ stpc = "done" /\ ExecutorOk(1))
          => /\ StageRunOk
             /\ SingleUpdateOutput(StageRunResult.output, "Compile")
             /\ IF ExecutorOutput(1).status = ExitStatus_Ok
                THEN /\ StageRunResult.status
                            = Continue_points_lost(PointQuantity_Partial(0))
                     /\ TheUpdate(StageRunResult.output).status = Status_Pass
                ELSE /\ StageRunResult.status = UnrecoverableFailure
                     /\ TheUpdate(StageRunResult.output).status
                            = Status_Fail(FullPoints)
                     /\ NotesShow(TheUpdate(StageRunResult.output).notes,
                                  ExecutorOutput(1).stdout)
                     /\ NotesShow(TheUpdate(StageRunResult.output).notes,
                                  ExecutorOutput(1).stderr)

\* make all exited with code 2 after writing "out" and "err": the stage
\* returned UnrecoverableFailure and the update's notes show both texts.
C21_Witness ==
    /\ stg.kind = "Compile"
    /\ stg.args = <<"all">>
    /\ stpc = "done"
    /\ xrets = << Ok(ProcessOutput(Failure(2), <<"out">>, <<"err">>)) >>
    /\ StageRunOk
    /\ StageRunResult.status = UnrecoverableFailure
    /\ NotesShow(TheUpdate(StageRunResult.output).notes, <<"err">>)

\* The updates of the status lists of the output's sections, as a set.
UpdatesIn(output) ==
    { output[1][i].content[j].updates[k] :
        <<i, j, k>> \in
          { t \in (1..Len(output[1])) \X (1..3) \X (1..3) :
              /\ t[2] <= Len(output[1][t[1]].content)
              /\ output[1][t[1]].content[t[2]].tag = "StatusList"
              /\ t[3] <= Len(output[1][t[1]].content[t[2]].updates) } }

(* ================================ C22 ================================= *)
\* C22: when the executor reports that the student program did not
\* complete (Timeout or Signal), Run::run returns UnrecoverableFailure with
\* a failing update whose note describes the timeout or the signal, and
\* GenosTest::run, given that result, returns Fail(0/max) at once, whatever
\* the test's points; when the executable is not in the workspace,
\* Run::run returns a system error and the executor was never called.
FailedRunNote(status) ==
    IF status.tag = "Timeout"
    THEN <<"Runtime error: program timed out after", status.duration[1]>>
    ELSE IF status.signal[1] = "Abort"
    THEN "Runtime error: Your submission exited with error code 6 (abort signal)"
    ELSE "Runtime error: Your submission exited with error code 11 (segmentation fault) ..."

C22_RunNotCompleted ==
    /\ (stg.kind = "Run" /\ stpc = "done" /\ "a.out" \notin DOMAIN wsfs.files)
          => StageRunErr /\ xcmds = <<>> /\ xrets = <<>>
    /\ ( /\ stg.kind = "Run" /\ stpc = "done" /\ ExecutorOk(1)
         /\ ExecutorOutput(1).status.tag \in {"Timeout", "Signal"} )
          => /\ StageRunOk
             /\ StageRunResult.status = UnrecoverableFailure
             /\ StageRunResult.output # None
             /\ \E u \in UpdatesIn(StageRunResult.output) :
                  /\ u.status.tag = "Fail"
                  /\ NotesShow(u.notes, FailedRunNote(ExecutorOutput(1).status))
             /\ \A p \in 0..MaxPoints :
                  run_step(ResultBuilder_new(p), stret.value[1], p).ret
                      = Some(Ok(TestResult(Fail(Score(0, p)),
                                           StageRunResult.output[1])))

\* The program was run and the executor reported Timeout(2): the stage
\* returned UnrecoverableFailure with the time-out note.
C22_Witness ==
    /\ stg.kind = "Run"
    /\ stpc = "done"
    /\ Len(xcmds) = 1
    /\ xrets = << Ok(ProcessOutput(Timeout(2), <<>>, <<>>)) >>
    /\ StageRunOk
    /\ StageRunResult.status = UnrecoverableFailure
    /\ \E u \in UpdatesIn(StageRunResult.output) :
         NotesShow(u.notes, <<"Runtime error: program timed out after", 2>>)

(* ================================ C23 ================================= *)
\* C23: for a program that completed (Ok or Failure), a Run stage with a
\* return-code configuration returns, on a mismatch of the exit code,
\* Continue with the configured point quantity lost and a failing
\* "Checking return code" update that carries that same quantity; on a
\* match, Continue with zero lost and a passing update; a Run stage
\* without a return-code configuration returns Continue with zero lost.
ActualExitCode ==
    IF ExecutorOutput(1).status.tag = "Ok" THEN 0
    ELSE ExecutorOutput(1).status.rc[1]

C23_ReturnCodeChecked ==
    ( /\ stg.kind = "Run" /\ stpc = "done" /\ ExecutorOk(1)
      /\ ExecutorOutput(1).status.tag \in {"Ok", "Failure"} )
       => /\ StageRunOk
          /\ IF stg.config.return_code = None
             THEN StageRunResult.status
                      = Continue_points_lost(PointQuantity_Partial(0))
             ELSE LET rc_config == stg.config.return_code[1]
                  IN  IF ActualExitCode # rc_config.expected
                      THEN /\ StageRunResult.status
                                  = Continue_points_lost(rc_config.points)
                           /\ \E u \in UpdatesIn(StageRunResult.output) :
                                /\ u.description = "Checking return code"
                                /\ u.status = Status_Fail(rc_config.points)
                      ELSE /\ StageRunResult.status
                                  = Continue_points_lost(
                                        PointQuantity_Partial(0))
                           /\ \E u \in UpdatesIn(StageRunResult.output) :
                                /\ u.description = "Checking return code"
                                /\ u.status = Status_Pass

(* ================= ghost views of one CompareFiles::run ================ *)
NCompares == Len(stg.config.compares)

\* The student file of the k-th comparison does not exist in the workspace.
StudentFileMissing(k) ==
    stg.config.compares[k].student_file \notin DOMAIN wsfs.files

\* The calls of the executor that compared the k-th comparison's student
\* file.
CmpCalls(k) ==
    { c \in 1..Len(xcmds) :
        /\ xcmds[c].program = "cmp"
        /\ xcmds[c].args[2]
               = <<Workspace, stg.config.compares[k].student_file>> }

\* The "Could not find file" update of a comparison.
MissingFileUpdate(compare) ==
    [ description |-> << "Comparing", compare.student_file,
                         IF compare.compare_type = "Diff" THEN "diff"
                         ELSE IF compare.compare_type = "Grep" THEN "grep"
                         ELSE "reverse grep" >>,
      status |-> [tag |-> "Fail", points_lost |-> Some(compare.points)],
      notes |-> Some([ tag |-> "Block",
                       text |-> [ text |-> << "Could not find file",
                                              compare.student_file,
                                              "in root of workspace" >>,
                                  code |-> FALSE ] ]) ]

(* ================================ C24 ================================= *)
\* C24: an iteration of CompareFiles::run for a comparison whose student
\* file does not exist in the workspace appends the failing update with
\* the configured points and the note "Could not find file <name> in root
\* of workspace", adds those points to points_lost, calls neither the
\* resource locator nor the comparator, and leaves run at the next
\* comparison.
C24_MissingFileFails ==
    [][ ( /\ stg.kind = "CompareFiles" /\ stpc = "loop"
          /\ stloc.i <= NCompares
          /\ StudentFileMissing(stloc.i) )
         => /\ stloc'.compare_status_updates
                   = Append(stloc.compare_status_updates,
                            MissingFileUpdate(stg.config.compares[stloc.i]))
            /\ stloc'.points_lost
                   = PointQuantity_add(stloc.points_lost,
                                       stg.config.compares[stloc.i].points)
            /\ lfinds' = lfinds
            /\ xcmds' = xcmds
            /\ stloc'.i = stloc.i + 1
            /\ stpc' = "loop"
            /\ stret' = Running ]_vars

\* Two comparisons, the first student file missing and worth Partial(1),
\* the second present: run returned with both updates, the first the
\* "Could not find file" one, and only the second comparison reached the
\* locator and the comparator.
C24_Witness ==
    /\ stg.kind = "CompareFiles"
    /\ NCompares = 2
    /\ StudentFileMissing(1)
    /\ ~StudentFileMissing(2)
    /\ stg.config.compares[1].points = PointQuantity_Partial(1)
    /\ stpc = "done"
    /\ StageRunOk
    /\ stloc.compare_status_updates[1]
           = MissingFileUpdate(stg.config.compares[1])
    /\ Len(stloc.compare_status_updates) = 2
    /\ CmpCalls(1) = {}
    /\ CmpCalls(2) # {}
    /\ \A f \in 1..Len(lfinds) : lfinds[f].i = 2

(* ================================ C25 ================================= *)
\* C25: a StageResult CompareFiles::run returns is always Continue.  Its
\* output is the single section "Compare Output" holding one status list
\* with one update per comparison in the configured order; an existing
\* student file's update passes exactly when a cmp of it exited with 0;
\* points_lost is FullPoints when a failed comparison is configured
\* FullPoints and otherwise Partial of the sum of the failed comparisons'
\* points (Partial(0) when none failed).
ComparisonFailed(k) == stloc.compare_status_updates[k].status.tag = "Fail"

RECURSIVE FailedPartialSum(_)
FailedPartialSum(k) ==
    IF k = 0 THEN 0
    ELSE FailedPartialSum(k - 1)
           + (IF /\ ComparisonFailed(k)
                 /\ stg.config.compares[k].points.tag = "Partial"
              THEN stg.config.compares[k].points.points[1] ELSE 0)

C25_CompareResult ==
    (stg.kind = "CompareFiles" /\ StageRunOk)
       => /\ StageRunResult.status.tag = "Continue"
          /\ StageRunResult.output
                 = Some(<< [ header |-> "Compare Output",
                             content |->
                               << [ tag |-> "StatusList",
                                    updates |->
                                      stloc.compare_status_updates ] >> ] >>)
          /\ Len(stloc.compare_status_updates) = NCompares
          /\ \A k \in 1..NCompares :
               /\ stloc.compare_status_updates[k].description[2]
                      = stg.config.compares[k].student_file
               /\ StudentFileMissing(k) => ComparisonFailed(k)
               /\ ~StudentFileMissing(k)
                     => (~ComparisonFailed(k)
                           <=> \E c \in CmpCalls(k) :
                                 xrets[c] = Ok(ProcessOutput(ExitStatus_Ok,
                                                             <<>>, <<>>)))
          /\ StageRunResult.status.points[1]
                 = IF \E k \in 1..NCompares :
                        /\ ComparisonFailed(k)
                        /\ stg.config.compares[k].points.tag = "FullPoints"
                   THEN [tag |-> "FullPoints", points |-> None]
                   ELSE [ tag |-> "Partial",
                          points |-> Some(FailedPartialSum(NCompares)) ]

\* Two comparisons failed, a missing file worth Partial(1) and a file that
\* matched neither expected file worth Partial(2): run returned Continue
\* with Partial(3) lost.
C25_Witness ==
    /\ stg.kind = "CompareFiles"
    /\ NCompares = 2
    /\ StageRunOk
    /\ StudentFileMissing(1)
    /\ Cardinality(CmpCalls(2)) = 2
    /\ stg.config.compares[1].points = PointQuantity_Partial(1)
    /\ stg.config.compares[2].points = PointQuantity_Partial(2)
    /\ StageRunResult.status
           = Continue_points_lost(PointQuantity_Partial(3))

(* ================================ C26 ================================= *)
\* C26: once the valgrind command has run and its log was read, the
\* Valgrind stage maps the exit status: Ok gives a passing update and
\* Continue with zero lost; Failure(rc) with rc >= 125 a failing update
\* and Continue with the configured quantity; Failure(rc) with rc < 125 a
\* system error; Timeout a failing update and Continue with the
\* configured quantity, the log left out of the output; Signal a failing
\* update that names the signal and Continue with the configured
\* quantity, the log included.  No result of the stage is
\* UnrecoverableFailure.
LogReadable ==
    /\ "valgrind.log" \in DOMAIN wsfs.files
    /\ \E k \in 1..Len(wsfs.files["valgrind.log"]) :
         wsfs.files["valgrind.log"][k].base \notin {" ", "\n"}

\* The output's section has an "Output" sub-section that shows the log with
\* its absolute paths reduced to basenames.
LogIncluded(output) ==
    \E j \in 1..Len(output[1][1].content) :
      /\ output[1][1].content[j].tag = "SubSection"
      /\ output[1][1].content[j].section
             = [ header |-> "Output",
                 content |->
                   << [ tag |-> "Block",
                        text |->
                          [ text |-> << Word("==1== ERROR SUMMARY"),
                                        Tok("at ", <<>>, "main.c") >>,
                            code |-> FALSE ] ] >> ]

LogLeftOut(output) ==
    \A j \in 1..Len(output[1][1].content) :
      output[1][1].content[j].tag = "SubSection"
         => output[1][1].content[j].section.header # "Output"

ValgrindUpdate(output) ==
    CHOOSE u \in UpdatesIn(output) : u.description = "running valgrind"

C26_ValgrindMapping ==
    /\ (stg.kind = "Valgrind" /\ StageRunOk)
          => StageRunResult.status.tag = "Continue"
    /\ (stg.kind = "Valgrind" /\ stpc = "done" /\ ExecutorOk(1) /\ LogReadable)
          => LET status == ExecutorOutput(1).status
                 lost(q) == /\ StageRunOk
                            /\ StageRunResult.status = Continue_points_lost(q)
                            /\ Cardinality(UpdatesIn(StageRunResult.output)) = 1
                 update == ValgrindUpdate(StageRunResult.output)
                 fails == update.status = Status_Fail(stg.config.points)
             IN  CASE status.tag = "Ok" ->
                        /\ lost(PointQuantity_Partial(0))
                        /\ update.status = Status_Pass
                        /\ LogIncluded(StageRunResult.output)
                   [] status.tag = "Failure" ->
                        IF status.rc[1] >= 125
                        THEN /\ lost(stg.config.points)
                             /\ fails
                             /\ NotesShow(update.notes,
                                          "Valgrind Errors Detected")
                             /\ LogIncluded(StageRunResult.output)
                        ELSE StageRunErr
                   [] status.tag = "Timeout" ->
                        /\ lost(stg.config.points)
                        /\ fails
                        /\ LogLeftOut(StageRunResult.output)
                   [] status.tag = "Signal" ->
                        /\ lost(stg.config.points)
                        /\ fails
                        /\ NotesShow(update.notes,
                               << "Your submission was killed by",
                                  IF status.signal[1] = "Abort"
                                  THEN "SIGABRT" ELSE "SIGSEGV", "!" >>)
                        /\ LogIncluded(StageRunResult.output)

\* Valgrind timed out after 2 seconds and left a log: the stage returned
\* Continue with the configured Partial(1) lost and an output without the
\* log.
C26_Witness ==
    /\ stg.kind = "Valgrind"
    /\ stg.config.points = PointQuantity_Partial(1)
    /\ stpc = "done"
    /\ LogReadable
    /\ ExecutorOk(1)
    /\ ExecutorOutput(1).status = Timeout(2)
    /\ StageRunOk
    /\ StageRunResult.status = Continue_points_lost(PointQuantity_Partial(1))
    /\ LogLeftOut(StageRunResult.output)

(* ------------------------------- C27 ----------------------------------- *)
\* The call of TestConfig::validate has returned.
Validated == fcall.fn = "validate" /\ fret # Running

\* The quantities of every part of the config that carries points: the
\* return-code check, the comparisons and the valgrind stage.
PointsBearing(config) ==
    (IF config.return_code # None THEN <<config.return_code[1]>> ELSE <<>>)
      \o (IF config.compares # None THEN config.compares[1] ELSE <<>>)
      \o (IF config.valgrind # None THEN <<config.valgrind[1]>> ELSE <<>>)

RECURSIVE PartialSum(_, _)
PartialSum(quantities, k) ==
    IF k = 0 THEN 0
    ELSE PartialSum(quantities, k - 1)
           + (IF quantities[k] = FullPoints THEN 0 ELSE quantities[k].points[1])

\* C27: a TestConfig is accepted if and only if the quantities of its
\* points-bearing parts are all FullPoints or all Partial and, when they
\* are all Partial, add up to total_points.
C27_ValidateAccepts ==
    Validated =>
      LET items == PointsBearing(fcall.config)
          allFull == \A k \in 1..Len(items) : items[k] = FullPoints
          allPartial == \A k \in 1..Len(items) : items[k] # FullPoints
      IN  (fret = Returned(Ok("unit")))
            <=> /\ allFull \/ allPartial
                /\ allPartial => PartialSum(items, Len(items))
                                   = fcall.config.total_points

(* ------------------------------- C28 ----------------------------------- *)
\* The call of ExitStatus::from has ended.
Converted == fcall.fn = "ExitStatus::from" /\ fret # Running

\* c mod 256: the value in 0..255 that differs from c by a multiple of 256.
Low8(c) == CHOOSE m \in 0..255 : \E q \in -2..2 : c = 256 * q + m

\* C28: a child that exited with argument c is reported as Ok when its
\* exit code is 0 and as Failure(c mod 256) otherwise (an exit of -10 as
\* 246); one killed by signal 11 as Signal(SegFault), by signal 6 as
\* Signal(Abort); any other signal makes the conversion panic; Timeout is
\* never the result.
C28_ExitStatusMapping ==
    Converted =>
      LET e == fcall.ending
      IN  /\ e.kind = "exit" /\ Low8(e.arg) = 0 => fret = Returned(ExitStatus_Ok)
          /\ e.kind = "exit" /\ Low8(e.arg) # 0 =>
               fret = Returned(Failure(Low8(e.arg)))
          /\ e = [kind |-> "exit", arg |-> -10] => fret = Returned(Failure(246))
          /\ e = [kind |-> "signal", arg |-> 11] =>
               fret = Returned(Signal("SegFault"))
          /\ e = [kind |-> "signal", arg |-> 6] =>
               fret = Returned(Signal("Abort"))
          /\ e.kind = "signal" /\ e.arg \notin {11, 6} => fret = Panicked
          /\ fret # Panicked => fret.value[1].tag # "Timeout"

\* An exit of -10 was reported as Failure(246).
C28_Witness ==
    /\ Converted
    /\ fcall.ending = [kind |-> "exit", arg |-> -10]
    /\ fret = Returned(Failure(246))

(* ------------------------------- C30 ----------------------------------- *)
\* A subtraction of Points has ended whose right operand is the larger.
Underflowed ==
    /\ fcall.fn \in {"sub", "sub_assign"}
    /\ fret # Running
    /\ u64_lt(fcall.lhs, fcall.rhs)

\* C30: subtracting a larger Points value from a smaller one panics; it
\* neither yields zero nor wraps around to a large value.
C30_UnderflowRejected == Underflowed => fret = Panicked

(* ------------------------------- C29 ----------------------------------- *)
\* The Output that ShellExecutor::run returned.
TheOutput == pret.value[1].res[1]

\* The two captured streams.
Streams == {"stdout", "stderr"}

RanInWorkspace(g) == invoked[g] > 0

SameWorkspace(g, h) ==
    test_workspace_id(TestAt(g)) = test_workspace_id(TestAt(h))

\* C31: no two tests of a run are ever run in the same workspace
\* directory, whatever the order in which the concurrent tests advance: a
\* running test's directory is the one create_dir made for it, and of the
\* tests that share an id all but the one that created the directory end
\* with the create_dir system error, never having been run.
C31_WorkspacesNotShared ==
    /\ \A g \in 1..NAll :
         RanInWorkspace(g) =>
           \A h \in 1..NAll :
             (g # h /\ RanInWorkspace(h)) => ~SameWorkspace(g, h)
    /\ \A g \in 1..NAll : phase[g] = "running" => TestAt(g).id \in dirs
    /\ \A h \in 1..NAll :
         RanInWorkspace(h) =>
           \A g \in 1..NAll :
             (g # h /\ phase[g] = "done" /\ SameWorkspace(g, h))
                => /\ ~RanInWorkspace(g)
                   /\ outcome[g] = Some(Err(CreateDirError(TestAt(g))))

\* Two regular tests share an id; the one configured later created the
\* directory and was run, the one configured first got the system error.
C31_Witness ==
    \E i, j \in 1..NTests :
       /\ i < j
       /\ SameWorkspace(NSetup + i, NSetup + j)
       /\ phase[NSetup + i] = "done" /\ phase[NSetup + j] = "done"
       /\ invoked[NSetup + j] = 1
       /\ invoked[NSetup + i] = 0
       /\ outcome[NSetup + i] = Some(Err(CreateDirError(tests[i])))

(* ================================ C40 ================================= *)
\* run_all_tests has returned.
AllTestsReturned == pc \in {"write", "fold", "done"}

\* No setup test ended in a system error and no create_dir failed.
NoSetupErrorAllCreated ==
    /\ \A k \in 1..NSetup : outcome[k] # None => outcome[k][1].tag = "Ok"
    /\ \A g \in 1..NAll : outcome[g] # Some(Err(CreateDirError(TestAt(g))))

\* C40: in one call of Genos::run the run of a test is called at most
\* once; when run_all_tests has returned, no setup test produced a system
\* error and every workspace was created, the run of every setup test and
\* of every regular test was called exactly once.
C40_EachTestRunOnce ==
    /\ \A g \in 1..NAll : invoked[g] <= 1
    /\ (AllTestsReturned /\ NoSetupErrorAllCreated)
          => \A g \in 1..NAll : invoked[g] = 1

\* A run over a setup test and two regular tests has ended; one regular
\* test returned a system error from its run, and each of the three was
\* run once.
C40_Witness ==
    /\ pc = "done"
    /\ NSetup = 1 /\ NTests = 2
    /\ NoSetupErrorAllCreated
    /\ \E i \in 1..NTests : outcome[NSetup + i][1].tag = "Err"
    /\ \A g \in 1..NAll : invoked[g] = 1

(* ================================ C32 ================================= *)
\* C32: ShellExecutor::run on a command with a timeout returns in every
\* execution, whether the child exits before the deadline or not; it does
\* not wait forever for the stdin task or the readers of stdout and
\* stderr.
C32_RunReturns == (cmd.timeout # None) => <>(ppc = "done")

(* ================================ C33 ================================= *)
\* C33: the child's stdin is a pipe if and only if the Command has a stdin
\* source, whatever its stdout and stderr capture paths are, and stdout
\* and stderr are pipes for every command.
C33_StdinPipedIffRequested ==
    (fcall.fn = "attach_pipes" /\ fret # Running) =>
      /\ fret.value[1].stdin = "piped" <=> fcall.cmd.stdin # None
      /\ fret.value[1].stdout = "piped"
      /\ fret.value[1].stderr = "piped"

(* ================================ C34 ================================= *)
\* Run::run returned a StageResult for a student program that completed.
ProgramCompleted ==
    /\ stg.kind = "Run"
    /\ StageRunOk
    /\ ExecutorOk(1)
    /\ completed(ExecutorOutput(1).status)

\* C34: whenever the student program completes (status Ok or Failure), the
\* output of the Run stage holds a passing "Running program" update, with
\* or without a return-code config.
C34_RunningProgramShown ==
    ProgramCompleted =>
      /\ StageRunResult.output # None
      /\ Update_new_pass("Running program") \in UpdatesIn(StageRunResult.output)

(* ================================ C35 ================================= *)
\* The finds the locator was asked for during the k-th comparison.
FindsOf(k) == SelectSeq(lfinds, LAMBDA f : f.i = k)

\* The executor's answer to call c: cmp exited with 0, with 1, or the
\* comparison could not be made.
CmpMatched(c) == xrets[c] = Ok(ProcessOutput(ExitStatus_Ok, <<>>, <<>>))

CmpDiffered(c) == xrets[c] = Ok(ProcessOutput(Failure(1), <<>>, <<>>))

CmpFailed(c) == ~CmpMatched(c) /\ ~CmpDiffered(c)

\* C35: for a comparison whose student file exists, the n-th cmp compares
\* the n-th expected file, located just before, with the student file;
\* after a cmp that exited with 0 no further candidate is compared and the
\* comparison's update passes; a cmp that ended with an exit code above 1,
\* a timeout, a signal or an executor error makes run return a system
\* error at once; and a comparison whose update was added passes exactly
\* when some cmp matched, and fails only after every candidate differed.
C35_CandidatesInOrder ==
    stg.kind = "CompareFiles" =>
      \A k \in 1..NCompares :
        LET compare == stg.config.compares[k]
            calls == CmpCalls(k)
            updates == stloc.compare_status_updates
        IN  /\ Cardinality(calls) <= Len(compare.expected)
            /\ \A c \in calls :
                 LET n == Cardinality({d \in calls : d <= c})
                 IN  /\ xcmds[c].args[1] = <<"resources", compare.expected[n]>>
                     /\ n <= Len(FindsOf(k))
                     /\ FindsOf(k)[n].name = compare.expected[n]
                     /\ (c <= Len(xrets) /\ CmpMatched(c))
                          => /\ \A d \in calls : d <= c
                             /\ Len(updates) >= k
                             /\ updates[k].status.tag = "Pass"
                     /\ (c <= Len(xrets) /\ CmpFailed(c))
                          => /\ c = Len(xcmds)
                             /\ stret.kind = "Returned"
                             /\ stret.value[1].tag = "Err"
            /\ (Len(updates) >= k /\ ~StudentFileMissing(k))
                 => /\ updates[k].status.tag = "Pass"
                         <=> \E c \in calls : CmpMatched(c)
                    /\ updates[k].status.tag = "Fail"
                         => /\ Cardinality(calls) = Len(compare.expected)
                            /\ \A c \in calls : CmpDiffered(c)

\* One comparison with two expected files: the first cmp exited with 1,
\* the second with 0, and the comparison passed without a third call.
C35_Witness ==
    /\ stg.kind = "CompareFiles"
    /\ NCompares = 1
    /\ stg.config.compares[1].expected = <<"e1", "e2">>
    /\ StageRunOk
    /\ Len(xcmds) = 2
    /\ xcmds[1].args[1] = <<"resources", "e1">>
    /\ xcmds[2].args[1] = <<"resources", "e2">>
    /\ CmpDiffered(1)
    /\ CmpMatched(2)
    /\ stloc.compare_status_updates[1].status.tag = "Pass"

(* ================================ C36 ================================= *)
\* CompareFiles::run has ended within the iteration of a comparison whose
\* type is Grep or ReverseGrep.
EndedAtUnimplementedType ==
    /\ stg.kind = "CompareFiles"
    /\ stpc = "done"
    /\ stloc.i <= NCompares
    /\ stg.config.compares[stloc.i].compare_type \in {"Grep", "ReverseGrep"}

\* C36: a comparison of type Grep or ReverseGrep makes CompareFiles::run
\* return a system error; run does not panic and returns no StageResult.
C36_UnimplementedTypeIsError == EndedAtUnimplementedType => StageRunErr

(* ================================ C37 ================================= *)
\* The valgrind command has run (the executor returned an Output) and
\* Valgrind::run has ended.
ValgrindRan ==
    /\ stg.kind = "Valgrind"
    /\ stpc = "done"
    /\ ExecutorOk(1)

\* C37: after the valgrind command has run, a valgrind.log that is missing
\* from the workspace or holds only whitespace makes the stage return a
\* system error ("Could not find logfile", "Found empty valgrind log"),
\* whatever the exit status of the command was.
C37_UnreadableLogIsError ==
    (ValgrindRan /\ ~LogReadable) =>
      /\ StageRunErr
      /\ stret.value[1].err[1]
           = IF "valgrind.log" \in DOMAIN wsfs.files
             THEN "Found empty valgrind log"
             ELSE "Could not find logfile"

\* valgrind exited with 0 and left a log of blanks only: the stage
\* returned the system error.
C37_Witness ==
    /\ ValgrindRan
    /\ ExecutorOutput(1).status = ExitStatus_Ok
    /\ "valgrind.log" \in DOMAIN wsfs.files
    /\ ~LogReadable
    /\ stret = Returned(Err("Found empty valgrind log"))

(* ================================ C38 ================================= *)
\* The status lists that are contents of the sections of an output.
StatusListsIn(output) ==
    { output[1][t[1]].content[t[2]] :
        t \in { t \in (1..Len(output[1])) \X (1..3) :
                  /\ t[2] <= Len(output[1][t[1]].content)
                  /\ output[1][t[1]].content[t[2]].tag = "StatusList" } }

\* C38: every StatusList of an Output that a stage (Compile, Run,
\* CompareFiles, Valgrind) returned holds at least one update, so
\* OutputWalker::status_list never fails its assertion on the output.
C38_StatusListsHaveUpdates ==
    (stpc = "done" /\ StageRunOk /\ StageRunResult.output # None) =>
      \A l \in StatusListsIn(StageRunResult.output) : Len(l.updates) >= 1

(* ================================ C39 ================================= *)
\* The line-number prefix "NN| " of line n.
Prefix(n) == <<48 + (n \div 10), 48 + (n % 10), 124, 32>>

\* The bytes of text from position p on begin with pre.
StartsAt(text, p, pre) ==
    /\ p + Len(pre) - 1 <= Len(text)
    /\ SubSeq(text, p, p + Len(pre) - 1) = pre

\* Two digits, a bar and a space stand at position p of text.
PrefixAt(text, p) ==
    /\ p + 3 <= Len(text)
    /\ text[p] \in 48..57
    /\ text[p + 1] \in 48..57
    /\ text[p + 2] = 124
    /\ text[p + 3] = 32

\* text from position k on, with the "NN| " prefix removed from the start
\* of each of its lines.
RECURSIVE strip_from(_, _, _)
strip_from(text, k, line_start) ==
    IF k > Len(text) THEN <<>>
    ELSE IF line_start /\ PrefixAt(text, k) THEN strip_from(text, k + 4, FALSE)
    ELSE <<text[k]>> \o strip_from(text, k + 1, text[k] = 10)

strip_prefixes(text) == strip_from(text, 1, TRUE)

\* contents with a backslash and an n put before each line feed.
RECURSIVE lf_shown(_)
lf_shown(contents) ==
    IF contents = <<>> THEN <<>>
    ELSE (IF Head(contents) = 10 THEN <<92, 110, 10>> ELSE <<Head(contents)>>)
           \o lf_shown(Tail(contents))

\* load_transformed_content returned the text of a file of printable bytes
\* and line feeds only.
TransformedPlain ==
    /\ fcall.fn = "load_transformed_content"
    /\ fret.kind = "Returned"
    /\ fret.value[1].tag = "Ok"
    /\ \A k \in 1..Len(fcall.contents) :
         fcall.contents[k] \in (32..126) \cup {10}

TheText == fret.value[1].res[1]

\* One prefix at the start and one after each line feed, numbered from 01.
PrefixesNumbered(text) ==
    /\ StartsAt(text, 1, Prefix(1))
    /\ \A p \in 1..Len(text) :
         text[p] = 10 =>
           StartsAt(text, p + 1,
                    Prefix(Cardinality({q \in 1..p : text[q] = 10}) + 1))

\* C39 as stated: for an input of bytes 0x20..=0x7E and LF, the transformed
\* text with the "NN| " prefixes removed is the input, and the prefixes
\* stand at the start and after each LF, numbered from 01.
C39_RoundTrip ==
    TransformedPlain =>
      /\ strip_prefixes(TheText) = fcall.contents
      /\ PrefixesNumbered(TheText)

\* C39, amended: for an input of bytes 0x20..=0x7E and LF, the transformed
\* text with the "NN| " prefixes removed is the input with each LF shown as
\* a backslash, an n and the LF; the prefixes stand at the start and after
\* each LF, numbered from 01.
C39_RoundTripShowsLF ==
    TransformedPlain =>
      /\ strip_prefixes(TheText) = lf_shown(fcall.contents)
      /\ PrefixesNumbered(TheText)

\* The file "0\n|": "01| 0\n" and a line feed, then "02| |".
C39_Witness ==
    /\ TransformedPlain
    /\ fcall.contents = <<48, 10, 124>>
    /\ TheText = <<48, 49, 124, 32, 48, 92, 110, 10, 48, 50, 124, 32, 124>>

=============================================================================
